---- MODULE Spec2Model ----
(***************************************************************************)
(* NeoBase administrative scripts: scripts/create_schema.py,                *)
(* scripts/read_database.py and setup_database.py.                         *)
(*                                                                         *)
(* Text is a finite sequence of symbols.  A symbol is one character; a     *)
(* character with no escape in a string is written by its code point       *)
(* ("U+00A0", and "U+0060" for the backquote).  A run of characters the    *)
(* scripts never cut or measure is one symbol holding the exact text: a    *)
(* statement of EXAMPLE_SCHEMAS between two ';', an example name.  Such a  *)
(* symbol holds no ';', a name no ',', and none starts or ends with        *)
(* whitespace.  A line written by log_info, log_warn, log_error or         *)
(* log_success is its level and one symbol naming the message by its fixed *)
(* words; the colour codes and the interpolated values are left out.       *)
(*                                                                         *)
(* The database driver (psycopg2 / mysql.connector) is the environment.    *)
(* Its interface is: connect (may raise), connection.cursor (may raise),   *)
(* cursor.execute (may raise), commit, rollback, cursor.close and          *)
(* connection.close (return normally).                                     *)
(* A connection is transactional: executed statements stay pending until   *)
(* commit applies them or rollback / close drops them.                     *)
(*                                                                         *)
(* The commands setup_database.py runs (which, apt-get, systemctl, the SQL *)
(* client) are the environment too: each returns 0, returns non-zero, or   *)
(* cannot be started.  So is the date command create_schema.py runs for    *)
(* the header of --generate-example.                                       *)
(***************************************************************************)
EXTENDS Integers, Sequences, FiniteSets, TLC

VARIABLES
    program,          \* which script runs: "create_schema", "read_database",
                      \* "setup_database" (or "print_results" on its own)
    args,             \* the parsed command line (argparse namespace)
    driverAvailable,  \* POSTGRES_AVAILABLE / MYSQL_AVAILABLE of the chosen --type
    pc,               \* position in main
    connection,       \* creator.connection / reader.connection
    cursor,           \* creator.cursor / reader.cursor
    tables,           \* create_schema main: the --example list being iterated
    ti,               \* create_schema main: index of the next table of the loop
    pending,          \* exception travelling through main's finally clause
    exitCode,         \* process exit code once pc = "exited"
    calls,            \* every call made on the driver, and every external
                      \* command run, in order
    txn,              \* statements pending in the connection's open transaction
    db,               \* statements applied and committed in the database
    out,              \* lines written by print and log_*
    hist,             \* one record per execute_sql call, in call order
    results,          \* print_results: the result list handed to it
    format,           \* print_results: the format_type handed to it
    qhist,            \* one record per reader method call, in call order
    env,              \* the DB_* environment variables of the process
    DEFAULT_CONFIG,   \* the module-level DEFAULT_CONFIG dictionary
    config            \* main's effective configuration

vars == <<program, args, driverAvailable, pc, connection, cursor, tables, ti,
          pending, exitCode, calls, txn, db, out, hist, results, format,
          qhist, env, DEFAULT_CONFIG, config>>

-----------------------------------------------------------------------------
(* Bounds                                                                  *)

MaxLen == 5          \* longest --schema file text, in characters
MaxTables == 2       \* most names in an --example argument
MaxSettings == 2     \* most environment variables set plus flags given

-----------------------------------------------------------------------------
(* Python values                                                           *)

None == "None"

\* the characters str.strip() removes: c.isspace(); a character that has no
\* escape in a string is written by its code point
Whitespace ==
    {"\t", "\n", "U+000B", "\f", "\r", "U+001C",
     "U+001D", "U+001E", "U+001F", " ", "U+0085", "U+00A0",
     "U+1680", "U+2000", "U+2001", "U+2002", "U+2003", "U+2004",
     "U+2005", "U+2006", "U+2007", "U+2008", "U+2009", "U+200A",
     "U+2028", "U+2029", "U+202F", "U+205F", "U+3000"}

RECURSIVE lstrip(_)
lstrip(s) ==
    IF s = <<>> THEN s
    ELSE IF Head(s) \in Whitespace THEN lstrip(Tail(s)) ELSE s

RECURSIVE rstrip(_)
rstrip(s) ==
    IF s = <<>> THEN s
    ELSE IF s[Len(s)] \in Whitespace THEN rstrip(SubSeq(s, 1, Len(s) - 1)) ELSE s

\* str.strip() with no argument
strip(s) == rstrip(lstrip(s))

\* str.split(sep): the fragments between the occurrences of sep, empty ones kept
RECURSIVE splitFrom(_, _, _, _)
splitFrom(s, sep, cur, acc) ==
    IF s = <<>> THEN Append(acc, cur)
    ELSE IF Head(s) = sep
         THEN splitFrom(Tail(s), sep, <<>>, Append(acc, cur))
         ELSE splitFrom(Tail(s), sep, Append(cur, Head(s)), acc)

split(s, sep) == splitFrom(s, sep, <<>>, <<>>)

\* sep.join(parts)
RECURSIVE join(_, _)
join(sep, parts) ==
    IF parts = <<>> THEN <<>>
    ELSE IF Len(parts) = 1 THEN parts[1]
    ELSE parts[1] \o sep \o join(sep, Tail(parts))

\* texts of at most n symbols over the alphabet A
RECURSIVE TextsUpTo(_, _)
TextsUpTo(A, n) ==
    IF n = 0 THEN {<<>>}
    ELSE LET shorter == TextsUpTo(A, n - 1)
         IN shorter \cup {Append(t, c) : t \in shorter, c \in A}

-----------------------------------------------------------------------------
(* The driver                                                              *)

Call(op, arg) == [op |-> op, arg |-> arg]

\* cursor.execute(statement) returning normally: the statement is pending
DriverExecute(t, statement) == Append(t, statement)

\* connection.commit(): the pending statements are applied
DriverCommit(d, t) == d \o t

\* connection.rollback(): the pending statements are dropped
DriverRollback(t) == <<>>

-----------------------------------------------------------------------------
(* create_schema.py                                                        *)

\* one written line: log_info / log_warn / log_error / log_success / print
Line(level, msg) == [level |-> level, msg |-> msg]

\* a log_* call with a fixed message
Log(level, msg) == Line(level, <<msg>>)

\* statements = [s.strip() for s in sql.split(';') if s.strip()]
RECURSIVE stripNonEmpty(_)
stripNonEmpty(frags) ==
    IF frags = <<>> THEN <<>>
    ELSE IF strip(Head(frags)) # <<>>
         THEN <<strip(Head(frags))>> \o stripNonEmpty(Tail(frags))
         ELSE stripNonEmpty(Tail(frags))

\* Mutant of Statements: the fragment after the last ';' is taken for the
\* empty tail of a terminated script and dropped unseen
Statements_DropLast(sql) ==
    LET frags == split(sql, ";")
    IN stripNonEmpty(SubSeq(frags, 1, Len(frags) - 1))

\* Mutant of Statements: the fragments are filtered but kept untrimmed
Statements_NoStrip(sql) == SelectSeq(split(sql, ";"), LAMBDA s : strip(s) # <<>>)

Statements(sql) == stripNonEmpty(split(sql, ";"))

\* Mutant of ExecuteStatements: the failure of a statement does not end the
\* loop (the exception is swallowed per statement and reported at the end)
RECURSIVE ExecuteStatements_KeepGoing(_, _, _, _, _, _)
ExecuteStatements_KeepGoing(statements, i, willRaise, log, t, o) ==
    IF i > Len(statements)
    THEN [calls |-> log, txn |-> t, out |-> o,
          raised |-> willRaise \cap (1..Len(statements)) # {}]
    ELSE ExecuteStatements_KeepGoing(
            statements, i + 1, willRaise, Append(log, Call("execute", statements[i])),
            IF i \in willRaise THEN t ELSE DriverExecute(t, statements[i]),
            Append(o, Log("INFO", "Executing")))

\* for statement in statements: if statement: log_info; self.cursor.execute
\* willRaise: the positions of the statements the driver would reject
RECURSIVE ExecuteStatements(_, _, _, _, _, _)
ExecuteStatements(statements, i, willRaise, log, t, o) ==
    IF i > Len(statements) THEN [calls |-> log, txn |-> t, out |-> o, raised |-> FALSE]
    ELSE IF statements[i] = <<>>
         THEN ExecuteStatements(statements, i + 1, willRaise, log, t, o)
    ELSE LET log1 == Append(log, Call("execute", statements[i]))
             o1 == Append(o, Log("INFO", "Executing"))
         IN IF i \in willRaise
            THEN [calls |-> log1, txn |-> t, out |-> o1, raised |-> TRUE]
            ELSE ExecuteStatements(statements, i + 1, willRaise, log1,
                                   DriverExecute(t, statements[i]), o1)

\* the two ways execute_sql ends
Failed(statements, run, d) ==
    [statements |-> statements,
     calls |-> Append(run.calls, Call("rollback", <<>>)),
     txn |-> DriverRollback(run.txn),
     db |-> d,
     out |-> Append(run.out, Log("ERROR", "Failed to execute SQL")),
     ret |-> FALSE]

Succeeded(statements, run, d) ==
    [statements |-> statements,
     calls |-> Append(run.calls, Call("commit", <<>>)),
     txn |-> <<>>,
     db |-> DriverCommit(d, run.txn),
     out |-> Append(run.out, Log("SUCCESS", "Schema created successfully!")),
     ret |-> TRUE]

\* Mutant of execute_sql: the commit is issued after every statement
\* instead of once after the loop
execute_sql_CommitEach(sql, willRaise, t, d) ==
    LET statements == Statements(sql)
        run == ExecuteStatements(statements, 1, willRaise, <<>>, t, <<>>)
        n == Len(SelectSeq(run.calls, LAMBDA c : c.op = "execute"))
        done == IF run.raised THEN n - 1 ELSE n
        each == [k \in 1..(2 * done) |->
                    IF k % 2 = 1 THEN Call("execute", statements[(k + 1) \div 2])
                    ELSE Call("commit", <<>>)]
    IN IF run.raised
       THEN [Failed(statements, run, d) EXCEPT
                !.calls = each \o <<Call("execute", statements[n]), Call("rollback", <<>>)>>,
                !.db = DriverCommit(d, run.txn)]
       ELSE [Succeeded(statements, run, d) EXCEPT !.calls = each]

\* Mutant of execute_sql: success is reported without the commit
execute_sql_NoCommit(sql, willRaise, t, d) ==
    LET statements == Statements(sql)
        run == ExecuteStatements(statements, 1, willRaise, <<>>, t, <<>>)
    IN IF run.raised
       THEN Failed(statements, run, d)
       ELSE [Succeeded(statements, run, d) EXCEPT
                !.calls = run.calls, !.txn = run.txn, !.db = d]

\* Mutant of execute_sql: the except clause falls through to return True
execute_sql_ReturnsTrue(sql, willRaise, t, d) ==
    LET statements == Statements(sql)
        run == ExecuteStatements(statements, 1, willRaise, <<>>, t, <<>>)
    IN IF run.raised
       THEN [Failed(statements, run, d) EXCEPT !.ret = TRUE]
       ELSE Succeeded(statements, run, d)

\* Mutant of execute_sql: a script without statements is reported as a
\* failure
execute_sql_EmptyFails(sql, willRaise, t, d) ==
    LET statements == Statements(sql)
        run == ExecuteStatements(statements, 1, willRaise, <<>>, t, <<>>)
    IN IF run.raised \/ statements = <<>>
       THEN Failed(statements, run, d)
       ELSE Succeeded(statements, run, d)

\* SchemaCreator.execute_sql(sql) on a connection with pending statements t
\* and database d
execute_sql(sql, willRaise, t, d) ==
    LET statements == Statements(sql)
        run == ExecuteStatements(statements, 1, willRaise, <<>>, t, <<>>)
    IN IF run.raised
       THEN Failed(statements, run, d)
       ELSE Succeeded(statements, run, d)

\* EXAMPLE_SCHEMAS[table][type]; the text of each statement, from its first
\* to its last character other than whitespace, is one opaque symbol
EXAMPLE_SCHEMAS ==
    [
     users |->
        [
         postgres |->
           <<"\n",
            "CREATE TABLE IF NOT EXISTS users (\n    id SERIAL PRIMARY KEY,\n    username VARCHAR(50) UNIQUE NOT NULL,\n    email VARCHAR(100) UNIQUE NOT NULL,\n    password_hash VARCHAR(255) NOT NULL,\n    first_name VARCHAR(50),\n    last_name VARCHAR(50),\n    is_active BOOLEAN DEFAULT true,\n    created_at TIMESTAMP DEFAULT CURRENT_TIMESTAMP,\n    updated_at TIMESTAMP DEFAULT CURRENT_TIMESTAMP\n)",
            ";",
            "\n",
            "\n",
            "CREATE INDEX idx_users_email ON users(email)",
            ";",
            "\n",
            "CREATE INDEX idx_users_username ON users(username)",
            ";",
            "\n">>,
         mysql |->
           <<"\n",
            "CREATE TABLE IF NOT EXISTS users (\n    id INT AUTO_INCREMENT PRIMARY KEY,\n    username VARCHAR(50) UNIQUE NOT NULL,\n    email VARCHAR(100) UNIQUE NOT NULL,\n    password_hash VARCHAR(255) NOT NULL,\n    first_name VARCHAR(50),\n    last_name VARCHAR(50),\n    is_active BOOLEAN DEFAULT true,\n    created_at TIMESTAMP DEFAULT CURRENT_TIMESTAMP,\n    updated_at TIMESTAMP DEFAULT CURRENT_TIMESTAMP ON UPDATE CURRENT_TIMESTAMP,\n    INDEX idx_users_email (email),\n    INDEX idx_users_username (username)\n) ENGINE=InnoDB DEFAULT CHARSET=utf8mb4 COLLATE=utf8mb4_unicode_ci",
            ";",
            "\n">>],
     posts |->
        [
         postgres |->
           <<"\n",
            "CREATE TABLE IF NOT EXISTS posts (\n    id SERIAL PRIMARY KEY,\n    user_id INTEGER NOT NULL,\n    title VARCHAR(200) NOT NULL,\n    content TEXT,\n    status VARCHAR(20) DEFAULT 'draft',\n    published_at TIMESTAMP,\n    created_at TIMESTAMP DEFAULT CURRENT_TIMESTAMP,\n    updated_at TIMESTAMP DEFAULT CURRENT_TIMESTAMP,\n    FOREIGN KEY (user_id) REFERENCES users(id) ON DELETE CASCADE\n)",
            ";",
            "\n",
            "\n",
            "CREATE INDEX idx_posts_user_id ON posts(user_id)",
            ";",
            "\n",
            "CREATE INDEX idx_posts_status ON posts(status)",
            ";",
            "\n",
            "CREATE INDEX idx_posts_published_at ON posts(published_at)",
            ";",
            "\n">>,
         mysql |->
           <<"\n",
            "CREATE TABLE IF NOT EXISTS posts (\n    id INT AUTO_INCREMENT PRIMARY KEY,\n    user_id INT NOT NULL,\n    title VARCHAR(200) NOT NULL,\n    content TEXT,\n    status VARCHAR(20) DEFAULT 'draft',\n    published_at TIMESTAMP NULL,\n    created_at TIMESTAMP DEFAULT CURRENT_TIMESTAMP,\n    updated_at TIMESTAMP DEFAULT CURRENT_TIMESTAMP ON UPDATE CURRENT_TIMESTAMP,\n    FOREIGN KEY (user_id) REFERENCES users(id) ON DELETE CASCADE,\n    INDEX idx_posts_user_id (user_id),\n    INDEX idx_posts_status (status),\n    INDEX idx_posts_published_at (published_at)\n) ENGINE=InnoDB DEFAULT CHARSET=utf8mb4 COLLATE=utf8mb4_unicode_ci",
            ";",
            "\n">>],
     comments |->
        [
         postgres |->
           <<"\n",
            "CREATE TABLE IF NOT EXISTS comments (\n    id SERIAL PRIMARY KEY,\n    post_id INTEGER NOT NULL,\n    user_id INTEGER NOT NULL,\n    content TEXT NOT NULL,\n    parent_id INTEGER,\n    created_at TIMESTAMP DEFAULT CURRENT_TIMESTAMP,\n    updated_at TIMESTAMP DEFAULT CURRENT_TIMESTAMP,\n    FOREIGN KEY (post_id) REFERENCES posts(id) ON DELETE CASCADE,\n    FOREIGN KEY (user_id) REFERENCES users(id) ON DELETE CASCADE,\n    FOREIGN KEY (parent_id) REFERENCES comments(id) ON DELETE CASCADE\n)",
            ";",
            "\n",
            "\n",
            "CREATE INDEX idx_comments_post_id ON comments(post_id)",
            ";",
            "\n",
            "CREATE INDEX idx_comments_user_id ON comments(user_id)",
            ";",
            "\n",
            "CREATE INDEX idx_comments_parent_id ON comments(parent_id)",
            ";",
            "\n">>,
         mysql |->
           <<"\n",
            "CREATE TABLE IF NOT EXISTS comments (\n    id INT AUTO_INCREMENT PRIMARY KEY,\n    post_id INT NOT NULL,\n    user_id INT NOT NULL,\n    content TEXT NOT NULL,\n    parent_id INT,\n    created_at TIMESTAMP DEFAULT CURRENT_TIMESTAMP,\n    updated_at TIMESTAMP DEFAULT CURRENT_TIMESTAMP ON UPDATE CURRENT_TIMESTAMP,\n    FOREIGN KEY (post_id) REFERENCES posts(id) ON DELETE CASCADE,\n    FOREIGN KEY (user_id) REFERENCES users(id) ON DELETE CASCADE,\n    FOREIGN KEY (parent_id) REFERENCES comments(id) ON DELETE CASCADE,\n    INDEX idx_comments_post_id (post_id),\n    INDEX idx_comments_user_id (user_id),\n    INDEX idx_comments_parent_id (parent_id)\n) ENGINE=InnoDB DEFAULT CHARSET=utf8mb4 COLLATE=utf8mb4_unicode_ci",
            ";",
            "\n">>]]

\* table in EXAMPLE_SCHEMAS, for a name read from the --example list
KnownTable(table) == Len(table) = 1 /\ table[1] \in DOMAIN EXAMPLE_SCHEMAS

\* tables = [t.strip() for t in args.example.split(',')]
RECURSIVE stripAll(_)
stripAll(frags) ==
    IF frags = <<>> THEN <<>> ELSE <<strip(Head(frags))>> \o stripAll(Tail(frags))

ExampleTables(example) == stripAll(split(example, ","))

\* Mutant of CloseCalls: close() closes the connection and leaves the cursor
CloseCalls_ConnectionOnly(cur, conn) ==
    IF conn = "open" THEN <<Call("connection.close", <<>>)>> ELSE <<>>

\* SchemaCreator.close(): the calls it makes on the driver
CloseCalls(cur, conn) ==
    (IF cur = "open" THEN <<Call("cursor.close", <<>>)>> ELSE <<>>)
    \o (IF conn = "open" THEN <<Call("connection.close", <<>>)>> ELSE <<>>)

CloseOut(conn) ==
    IF conn = "open" THEN <<Log("INFO", "Database connection closed")>> ELSE <<>>

\* the record of one execute_sql call
Batch(sql, willRaise, r, dbBefore) ==
    [sql |-> sql, willRaise |-> willRaise, statements |-> r.statements,
     calls |-> r.calls, ret |-> r.ret, dbBefore |-> dbBefore, dbAfter |-> r.db,
     txnAfter |-> r.txn]

-----------------------------------------------------------------------------
(* Inputs                                                                  *)

Types == {"postgres", "mysql"}

-----------------------------------------------------------------------------
(* Configuration: DEFAULT_CONFIG and the connection flags of the command   *)
(* line.  A value is a string; None stands for an unset environment        *)
(* variable and for a flag that is not on the command line.                *)

ConfigKeys == {"db_name", "db_user", "db_password", "db_host", "db_port"}

\* the environment variable, the flag and the built-in default of each key
EnvVar(key) ==
    CASE key = "db_name" -> "DB_NAME"
      [] key = "db_user" -> "DB_USER"
      [] key = "db_password" -> "DB_PASSWORD"
      [] key = "db_host" -> "DB_HOST"
      [] key = "db_port" -> "DB_PORT"

Flag(key) ==
    CASE key = "db_name" -> "name"
      [] key = "db_user" -> "user"
      [] key = "db_password" -> "password"
      [] key = "db_host" -> "host"
      [] key = "db_port" -> "port"

Default(type, key) ==
    CASE key = "db_name" -> "myapp_db"
      [] key = "db_user" -> "myapp_user"
      [] key = "db_password" -> "changeme123"
      [] key = "db_host" -> "localhost"
      [] key = "db_port" -> IF type = "postgres" THEN "5432" ELSE "3306"

EnvVars == {EnvVar(key) : key \in ConfigKeys}
Flags == {Flag(key) : key \in ConfigKeys}

\* os.getenv(name, default)
getenv(e, name, default) == IF e[name] = None THEN default ELSE e[name]

\* the dictionary the module builds when it is imported
ModuleConfig(e) ==
    [type \in Types |->
        [key \in ConfigKeys |-> getenv(e, EnvVar(key), Default(type, key))]]

\* truth value of an argparse string option: None and '' are false
Truthy(v) == v # None /\ v # ""

\* config = DEFAULT_CONFIG[args.type].copy(); if args.name: config[...] = ...
EffectiveConfig(defaults, a) ==
    [key \in ConfigKeys |->
        IF Truthy(a[Flag(key)]) THEN a[Flag(key)] ELSE defaults[a.type][key]]

Settings(f) == Cardinality({x \in DOMAIN f : f[x] # None})

Environments == {e \in [EnvVars -> {None, "", "env"}] : Settings(e) <= MaxSettings}

FlagValues == [Flags -> {None, "", "cli"}]

NoEnvironment == [v \in EnvVars |-> None]
NoFlags == [x \in Flags |-> None]

\* the namespace `options` with the connection flags `f`
WithFlags(options, f) ==
    [x \in DOMAIN options \cup Flags |-> IF x \in Flags THEN f[x] ELSE options[x]]

\* the connection flags tried with the environment e: every choice within
\* MaxSettings on a run that requests no operation (idle), and on the other
\* runs no flag and no variable
ConnectionFlags(e, idle) ==
    IF idle THEN {g \in FlagValues : Settings(g) + Settings(e) <= MaxSettings}
    ELSE {g \in {NoFlags} : e = NoEnvironment}

-----------------------------------------------------------------------------
(* Inputs of create_schema.py                                              *)

\* the characters of a --schema file: every text over Chars, and shorter
\* texts with a form feed and a no-break space
Chars == {"a", "b", " ", ";"}
OtherSpaces == {"\f", "U+00A0"}
SchemaTexts ==
    TextsUpTo(Chars, MaxLen) \cup TextsUpTo({"a", ";"} \cup OtherSpaces, MaxLen - 2)

\* the names of an --example argument: the example tables and one unknown
ExampleNames == {<<"users">>, <<"posts">>, <<"comments">>, <<"bogus">>}

RECURSIVE NameLists(_)
NameLists(n) ==
    IF n = 0 THEN {<<>>}
    ELSE LET shorter == NameLists(n - 1)
         IN shorter \cup {Append(l, x) : l \in shorter, x \in ExampleNames}

\* --example arguments: names joined by ',', some joined by ', ', one with
\* a trailing comma and one with other whitespace around the names
ExampleTexts ==
    {join(<<",">>, l) : l \in NameLists(MaxTables) \ {<<>>}}
    \cup {join(<<",", " ">>, l) :
            l \in {m \in NameLists(MaxTables) :
                     m # <<>> /\ \A i \in 1..Len(m) : m[i] \in {<<"users">>, <<"bogus">>}}}
    \cup {<<" ", "users", ",">>, <<"\r", "users", "U+00A0", ",", "\f", "posts">>}

\* the options of create_schema.py other than the connection flags; "" and
\* <<>> stand for an option that is absent (None) or empty, which the script
\* tells apart from neither
CreateOptions ==
    [type : Types, generate_example : {TRUE}, schema : {"", "schema.sql"},
     example : {<<>>, <<"users">>}]
    \cup [type : Types, generate_example : {FALSE}, schema : {"schema.sql"},
          example : {<<>>, <<"users">>}]
    \cup [type : Types, generate_example : {FALSE}, schema : {""},
          example : ExampleTexts \cup {<<>>}]

\* argparse namespaces of create_schema.py
CreateArgs(e) ==
    UNION {{WithFlags(o, f) :
               f \in ConnectionFlags(e, ~o.generate_example /\ o.schema = ""
                                          /\ o.example = <<>>)} :
           o \in CreateOptions}

-----------------------------------------------------------------------------
(* create_schema.main                                                      *)

CreatorVars == <<tables, ti, hist>>
RenderVars == <<results, format>>
ReaderVars == <<qhist>>
ConfigVars == <<env, DEFAULT_CONFIG, config>>

\* args.type.upper()
TypeUpper(type) == IF type = "postgres" THEN "POSTGRES" ELSE "MYSQL"

\* what os.popen('date').read() gives: the date and a line break, or
\* nothing when the command cannot run
DateOutputs == {<<"Fri Oct 30 02:35:48 UTC 2026", "\n">>, <<>>}

\* print(f"-- Table: {table_name}"); print(schemas[args.type]); print()
TableListing(type, table_name) ==
    <<Line("PRINT", <<"-- Table: ", table_name>>),
      Line("PRINT", EXAMPLE_SCHEMAS[table_name][type]),
      Line("PRINT", <<>>)>>

\* if args.generate_example: print the example schemas and return
GenerateExample ==
    /\ program = "create_schema" /\ pc = "main"
    /\ args.generate_example
    /\ \E date \in DateOutputs :
          /\ calls' = Append(calls, Call("popen", <<"date">>))
          /\ out' = out
                    \o <<Line("PRINT", <<"-- Example Schema for ", TypeUpper(args.type)>>),
                         Line("PRINT", <<"-- Generated on ">> \o strip(date)),
                         Line("PRINT", <<>>)>>
                    \o TableListing(args.type, "users")
                    \o TableListing(args.type, "posts")
                    \o TableListing(args.type, "comments")
    /\ pc' = "exited"
    /\ exitCode' = 0
    /\ UNCHANGED <<program, args, driverAvailable, connection, cursor, pending,
                   txn, db, CreatorVars, RenderVars, ReaderVars, ConfigVars>>

\* config = DEFAULT_CONFIG[args.type].copy() and the overrides;
\* creator = PostgresSchemaCreator(config) / MySQLSchemaCreator(config)
CreateCreator ==
    /\ program = "create_schema" /\ pc = "main"
    /\ ~args.generate_example
    /\ config' = EffectiveConfig(DEFAULT_CONFIG, args)
    /\ IF driverAvailable
       THEN /\ pc' = "connect"
            /\ UNCHANGED <<out, exitCode>>
       ELSE /\ out' = Append(out, Log("ERROR", "driver is not installed"))
            /\ pc' = "exited"
            /\ exitCode' = 1
    /\ UNCHANGED <<program, args, driverAvailable, connection, cursor, pending,
                   calls, txn, db, CreatorVars, RenderVars, ReaderVars,
                   env, DEFAULT_CONFIG>>

\* what the driver does in connect(): driver.connect raises, or it returns
\* and connection.cursor() raises, or both return
ConnectOutcomes == {"connect raises", "cursor raises", "connected"}

\* connect() of the creators and the readers: both driver calls are in one
\* try block whose except clause logs and calls sys.exit(1)
connect(outcome) ==
    CASE outcome = "connect raises" ->
            [connection |-> None, cursor |-> None,
             calls |-> <<Call("connect", <<>>)>>,
             out |-> <<Log("ERROR", "Failed to connect")>>,
             pending |-> "SystemExit(1)"]
      [] outcome = "cursor raises" ->
            [connection |-> "open", cursor |-> None,
             calls |-> <<Call("connect", <<>>), Call("cursor", <<>>)>>,
             out |-> <<Log("ERROR", "Failed to connect")>>,
             pending |-> "SystemExit(1)"]
      [] outcome = "connected" ->
            [connection |-> "open", cursor |-> "open",
             calls |-> <<Call("connect", <<>>), Call("cursor", <<>>)>>,
             out |-> <<Log("INFO", "Connected to database")>>,
             pending |-> "none"]

\* creator.connect()
Connect ==
    /\ program = "create_schema" /\ pc = "connect"
    /\ \E outcome \in ConnectOutcomes :
          LET r == connect(outcome)
          IN /\ connection' = r.connection
             /\ cursor' = r.cursor
             /\ calls' = calls \o r.calls
             /\ out' = out \o r.out
             /\ pending' = r.pending
             /\ pc' = IF r.pending = "none" THEN "operation" ELSE "finally"
    /\ UNCHANGED <<program, args, driverAvailable, exitCode, txn, db,
                   CreatorVars, RenderVars, ReaderVars, ConfigVars>>

\* if args.schema: if not os.path.exists(args.schema): sys.exit(1)
SchemaMissing ==
    /\ program = "create_schema" /\ pc = "operation"
    /\ args.schema # ""
    /\ out' = Append(out, Log("ERROR", "Schema file not found"))
    /\ pending' = "SystemExit(1)"
    /\ pc' = "finally"
    /\ UNCHANGED <<program, args, driverAvailable, connection, cursor, exitCode,
                   calls, txn, db, CreatorVars, RenderVars, ReaderVars,
                   ConfigVars>>

\* with open(args.schema, 'r') as f: sql = f.read()   raising OSError
SchemaUnreadable ==
    /\ program = "create_schema" /\ pc = "operation"
    /\ args.schema # ""
    /\ pending' = "Exception"
    /\ pc' = "finally"
    /\ UNCHANGED <<program, args, driverAvailable, connection, cursor, exitCode,
                   calls, txn, db, out, CreatorVars, RenderVars, ReaderVars,
                   ConfigVars>>

\* sql = f.read(); creator.execute_sql(sql)
RunSchema ==
    /\ program = "create_schema" /\ pc = "operation"
    /\ args.schema # ""
    /\ \E sql \in SchemaTexts :
       \E willRaise \in SUBSET (1..Len(Statements(sql))) :
          LET r == execute_sql(sql, willRaise, txn, db)
          IN /\ calls' = calls \o r.calls
             /\ txn' = r.txn
             /\ db' = r.db
             /\ out' = out \o <<Log("INFO", "Creating schema from file")>> \o r.out
             /\ hist' = Append(hist, Batch(sql, willRaise, r, db))
    /\ pc' = "finally"
    /\ UNCHANGED <<program, args, driverAvailable, connection, cursor, pending,
                   exitCode, tables, ti, RenderVars, ReaderVars,
                   ConfigVars>>

\* elif args.example: tables = [t.strip() for t in args.example.split(',')]
StartExample ==
    /\ program = "create_schema" /\ pc = "operation"
    /\ args.schema = "" /\ args.example # <<>>
    /\ tables' = ExampleTables(args.example)
    /\ ti' = 1
    /\ pc' = "example"
    /\ UNCHANGED <<program, args, driverAvailable, connection, cursor, pending,
                   exitCode, calls, txn, db, out, hist, RenderVars, ReaderVars,
                   ConfigVars>>

\* Mutant of AfterTable: an unknown name ends the loop (break for continue)
AfterTable_BreakOnUnknown(i, ts) ==
    IF i = Len(ts) \/ ~KnownTable(ts[i]) THEN "finally" ELSE "example"

\* the position main reaches after the loop body ran for tables[i]
AfterTable(i, ts) == IF i = Len(ts) THEN "finally" ELSE "example"

\* for table in tables: one iteration of the loop body
ExampleStep ==
    /\ program = "create_schema" /\ pc = "example"
    /\ ti <= Len(tables)
    /\ LET table == tables[ti]
       IN IF ~KnownTable(table)
          THEN /\ out' = Append(out, Log("WARN", "Unknown example table"))
               /\ UNCHANGED <<calls, txn, db, hist>>
          ELSE LET sql == EXAMPLE_SCHEMAS[table[1]][args.type]
               IN \E willRaise \in SUBSET (1..Len(Statements(sql))) :
                    LET r == execute_sql(sql, willRaise, txn, db)
                    IN /\ calls' = calls \o r.calls
                       /\ txn' = r.txn
                       /\ db' = r.db
                       /\ out' = out \o <<Log("INFO", "Creating example table")>>
                                 \o r.out
                       /\ hist' = Append(hist, Batch(sql, willRaise, r, db))
    /\ ti' = ti + 1
    /\ pc' = AfterTable(ti, tables)
    /\ UNCHANGED <<program, args, driverAvailable, connection, cursor, pending,
                   exitCode, tables, RenderVars, ReaderVars,
                   ConfigVars>>

\* else: log_error("Please specify --schema or --example"); parser.print_help()
NoOperation ==
    /\ program = "create_schema" /\ pc = "operation"
    /\ args.schema = "" /\ args.example = <<>>
    /\ out' = out \o <<Log("ERROR", "Please specify --schema or --example"),
                       Log("PRINT", "help")>>
    /\ pc' = "finally"
    /\ UNCHANGED <<program, args, driverAvailable, connection, cursor, pending,
                   exitCode, calls, txn, db, CreatorVars, RenderVars, ReaderVars,
                   ConfigVars>>

\* Mutant of ExitCodeOf: the exit request is caught and main returns
ExitCodeOf_AlwaysZero(p) == 0

\* Mutant of ExitCodeOf: main remembers a failed batch and exits non-zero
ExitCodeOf_FailedBatch(p) ==
    IF p # "none" \/ \E k \in 1..Len(hist) : hist[k].ret = FALSE THEN 1 ELSE 0

\* the exit code of the interpreter for what left main
ExitCodeOf(p) == IF p = "none" THEN 0 ELSE 1

\* finally: creator.close()
Close ==
    /\ program = "create_schema" /\ pc = "finally"
    /\ calls' = calls \o <<Call("close()", <<>>)>> \o CloseCalls(cursor, connection)
    /\ out' = out \o CloseOut(connection)
    /\ cursor' = IF cursor = "open" THEN "closed" ELSE cursor
    /\ connection' = IF connection = "open" THEN "closed" ELSE connection
    /\ txn' = <<>>
    /\ pc' = "exited"
    /\ exitCode' = ExitCodeOf(pending)
    /\ UNCHANGED <<program, args, driverAvailable, pending, db, CreatorVars,
                   RenderVars, ReaderVars,
                   ConfigVars>>

-----------------------------------------------------------------------------
(* read_database.py: values, rows and result lists                         *)

\* a Python value of a result row: its type and its str()
Value(kind, text) == [kind |-> kind, text |-> text, items |-> <<>>]

\* a list, a tuple or a dict held in a cell (an array or json column): its
\* type, its str() and its elements; the elements of a dict are its
\* key/value pairs in insertion order, the keys strings
Container(kind, text, items) == [kind |-> kind, text |-> text, items |-> items]

\* a dict kept in insertion order: a sequence of key/value pairs
Pair(key, value) == [key |-> key, value |-> value]

\* list(row.keys())
keys(row) == [i \in 1..Len(row) |-> row[i].key]

\* str(row.get(h, ''))
str_get(row, h) ==
    IF \E i \in 1..Len(row) : row[i].key = h
    THEN row[CHOOSE i \in 1..Len(row) : row[i].key = h].value.text
    ELSE <<>>

\* the printable ASCII characters, chr(32) .. chr(126), in order; the
\* backquote cannot stand in a string and is written by its code point
Ascii ==
    <<" ", "!", "\"", "#", "$", "%", "&", "'", "(", ")", "*", "+", ",", "-",
      ".", "/", "0", "1", "2", "3", "4", "5", "6", "7", "8", "9", ":", ";",
      "<", "=", ">", "?", "@", "A", "B", "C", "D", "E", "F", "G", "H", "I",
      "J", "K", "L", "M", "N", "O", "P", "Q", "R", "S", "T", "U", "V", "W",
      "X", "Y", "Z", "[", "\\", "]", "^", "_", "U+0060", "a", "b", "c", "d",
      "e", "f", "g", "h", "i", "j", "k", "l", "m", "n", "o", "p", "q", "r",
      "s", "t", "u", "v", "w", "x", "y", "z", "{", "|", "}", "~">>

\* the hexadecimal digits, as a symbol "U+XXXX" and as json.dumps write them
UpperHex ==
    <<"0", "1", "2", "3", "4", "5", "6", "7", "8", "9", "A", "B", "C", "D", "E", "F">>

LowerHex ==
    <<"0", "1", "2", "3", "4", "5", "6", "7", "8", "9", "a", "b", "c", "d", "e", "f">>

HexValue(d) == (CHOOSE k \in 1..16 : UpperHex[k] = d) - 1

\* the number a string of hexadecimal digits writes
RECURSIVE HexNumber(_)
HexNumber(digits) ==
    IF Len(digits) = 1 THEN HexValue(digits)
    ELSE 16 * HexNumber(SubSeq(digits, 1, Len(digits) - 1))
         + HexValue(SubSeq(digits, Len(digits), Len(digits)))

\* ord(c): the code point of a character, read off the symbol that writes it
ord(c) ==
    IF Len(c) > 1 THEN HexNumber(SubSeq(c, 3, Len(c)))
    ELSE CASE c = "\t" -> 9
           [] c = "\n" -> 10
           [] c = "\f" -> 12
           [] c = "\r" -> 13
           [] OTHER -> 31 + CHOOSE k \in 1..Len(Ascii) : Ascii[k] = c

\* str.upper() of the characters whose upper case is one other character
\* (Unicode 14.0.0, the character database of Python 3.11):
\* <<character, its upper case>>
SimpleUpper ==
    <<<<"a", "A">>, <<"b", "B">>, <<"c", "C">>, <<"d", "D">>, <<"e", "E">>,
      <<"f", "F">>, <<"g", "G">>, <<"h", "H">>, <<"i", "I">>, <<"j", "J">>,
      <<"k", "K">>, <<"l", "L">>, <<"m", "M">>, <<"n", "N">>, <<"o", "O">>,
      <<"p", "P">>, <<"q", "Q">>, <<"r", "R">>, <<"s", "S">>, <<"t", "T">>,
      <<"u", "U">>, <<"v", "V">>, <<"w", "W">>, <<"x", "X">>, <<"y", "Y">>,
      <<"z", "Z">>, <<"U+00B5", "U+039C">>, <<"U+00E0", "U+00C0">>,
      <<"U+00E1", "U+00C1">>, <<"U+00E2", "U+00C2">>, <<"U+00E3", "U+00C3">>,
      <<"U+00E4", "U+00C4">>, <<"U+00E5", "U+00C5">>, <<"U+00E6", "U+00C6">>,
      <<"U+00E7", "U+00C7">>, <<"U+00E8", "U+00C8">>, <<"U+00E9", "U+00C9">>,
      <<"U+00EA", "U+00CA">>, <<"U+00EB", "U+00CB">>, <<"U+00EC", "U+00CC">>,
      <<"U+00ED", "U+00CD">>, <<"U+00EE", "U+00CE">>, <<"U+00EF", "U+00CF">>,
      <<"U+00F0", "U+00D0">>, <<"U+00F1", "U+00D1">>, <<"U+00F2", "U+00D2">>,
      <<"U+00F3", "U+00D3">>, <<"U+00F4", "U+00D4">>, <<"U+00F5", "U+00D5">>,
      <<"U+00F6", "U+00D6">>, <<"U+00F8", "U+00D8">>, <<"U+00F9", "U+00D9">>,
      <<"U+00FA", "U+00DA">>, <<"U+00FB", "U+00DB">>, <<"U+00FC", "U+00DC">>,
      <<"U+00FD", "U+00DD">>, <<"U+00FE", "U+00DE">>, <<"U+00FF", "U+0178">>,
      <<"U+0101", "U+0100">>, <<"U+0103", "U+0102">>, <<"U+0105", "U+0104">>,
      <<"U+0107", "U+0106">>, <<"U+0109", "U+0108">>, <<"U+010B", "U+010A">>,
      <<"U+010D", "U+010C">>, <<"U+010F", "U+010E">>, <<"U+0111", "U+0110">>,
      <<"U+0113", "U+0112">>, <<"U+0115", "U+0114">>, <<"U+0117", "U+0116">>,
      <<"U+0119", "U+0118">>, <<"U+011B", "U+011A">>, <<"U+011D", "U+011C">>,
      <<"U+011F", "U+011E">>, <<"U+0121", "U+0120">>, <<"U+0123", "U+0122">>,
      <<"U+0125", "U+0124">>, <<"U+0127", "U+0126">>, <<"U+0129", "U+0128">>,
      <<"U+012B", "U+012A">>, <<"U+012D", "U+012C">>, <<"U+012F", "U+012E">>,
      <<"U+0131", "I">>, <<"U+0133", "U+0132">>, <<"U+0135", "U+0134">>,
      <<"U+0137", "U+0136">>, <<"U+013A", "U+0139">>, <<"U+013C", "U+013B">>,
      <<"U+013E", "U+013D">>, <<"U+0140", "U+013F">>, <<"U+0142", "U+0141">>,
      <<"U+0144", "U+0143">>, <<"U+0146", "U+0145">>, <<"U+0148", "U+0147">>,
      <<"U+014B", "U+014A">>, <<"U+014D", "U+014C">>, <<"U+014F", "U+014E">>,
      <<"U+0151", "U+0150">>, <<"U+0153", "U+0152">>, <<"U+0155", "U+0154">>,
      <<"U+0157", "U+0156">>, <<"U+0159", "U+0158">>, <<"U+015B", "U+015A">>,
      <<"U+015D", "U+015C">>, <<"U+015F", "U+015E">>, <<"U+0161", "U+0160">>,
      <<"U+0163", "U+0162">>, <<"U+0165", "U+0164">>, <<"U+0167", "U+0166">>,
      <<"U+0169", "U+0168">>, <<"U+016B", "U+016A">>, <<"U+016D", "U+016C">>,
      <<"U+016F", "U+016E">>, <<"U+0171", "U+0170">>, <<"U+0173", "U+0172">>,
      <<"U+0175", "U+0174">>, <<"U+0177", "U+0176">>, <<"U+017A", "U+0179">>,
      <<"U+017C", "U+017B">>, <<"U+017E", "U+017D">>, <<"U+017F", "S">>,
      <<"U+0180", "U+0243">>, <<"U+0183", "U+0182">>, <<"U+0185", "U+0184">>,
      <<"U+0188", "U+0187">>, <<"U+018C", "U+018B">>, <<"U+0192", "U+0191">>,
      <<"U+0195", "U+01F6">>, <<"U+0199", "U+0198">>, <<"U+019A", "U+023D">>,
      <<"U+019E", "U+0220">>, <<"U+01A1", "U+01A0">>, <<"U+01A3", "U+01A2">>,
      <<"U+01A5", "U+01A4">>, <<"U+01A8", "U+01A7">>, <<"U+01AD", "U+01AC">>,
      <<"U+01B0", "U+01AF">>, <<"U+01B4", "U+01B3">>, <<"U+01B6", "U+01B5">>,
      <<"U+01B9", "U+01B8">>, <<"U+01BD", "U+01BC">>, <<"U+01BF", "U+01F7">>,
      <<"U+01C5", "U+01C4">>, <<"U+01C6", "U+01C4">>, <<"U+01C8", "U+01C7">>,
      <<"U+01C9", "U+01C7">>, <<"U+01CB", "U+01CA">>, <<"U+01CC", "U+01CA">>,
      <<"U+01CE", "U+01CD">>, <<"U+01D0", "U+01CF">>, <<"U+01D2", "U+01D1">>,
      <<"U+01D4", "U+01D3">>, <<"U+01D6", "U+01D5">>, <<"U+01D8", "U+01D7">>,
      <<"U+01DA", "U+01D9">>, <<"U+01DC", "U+01DB">>, <<"U+01DD", "U+018E">>,
      <<"U+01DF", "U+01DE">>, <<"U+01E1", "U+01E0">>, <<"U+01E3", "U+01E2">>,
      <<"U+01E5", "U+01E4">>, <<"U+01E7", "U+01E6">>, <<"U+01E9", "U+01E8">>,
      <<"U+01EB", "U+01EA">>, <<"U+01ED", "U+01EC">>, <<"U+01EF", "U+01EE">>,
      <<"U+01F2", "U+01F1">>, <<"U+01F3", "U+01F1">>, <<"U+01F5", "U+01F4">>,
      <<"U+01F9", "U+01F8">>, <<"U+01FB", "U+01FA">>, <<"U+01FD", "U+01FC">>,
      <<"U+01FF", "U+01FE">>, <<"U+0201", "U+0200">>, <<"U+0203", "U+0202">>,
      <<"U+0205", "U+0204">>, <<"U+0207", "U+0206">>, <<"U+0209", "U+0208">>,
      <<"U+020B", "U+020A">>, <<"U+020D", "U+020C">>, <<"U+020F", "U+020E">>,
      <<"U+0211", "U+0210">>, <<"U+0213", "U+0212">>, <<"U+0215", "U+0214">>,
      <<"U+0217", "U+0216">>, <<"U+0219", "U+0218">>, <<"U+021B", "U+021A">>,
      <<"U+021D", "U+021C">>, <<"U+021F", "U+021E">>, <<"U+0223", "U+0222">>,
      <<"U+0225", "U+0224">>, <<"U+0227", "U+0226">>, <<"U+0229", "U+0228">>,
      <<"U+022B", "U+022A">>, <<"U+022D", "U+022C">>, <<"U+022F", "U+022E">>,
      <<"U+0231", "U+0230">>, <<"U+0233", "U+0232">>, <<"U+023C", "U+023B">>,
      <<"U+023F", "U+2C7E">>, <<"U+0240", "U+2C7F">>, <<"U+0242", "U+0241">>,
      <<"U+0247", "U+0246">>, <<"U+0249", "U+0248">>, <<"U+024B", "U+024A">>,
      <<"U+024D", "U+024C">>, <<"U+024F", "U+024E">>, <<"U+0250", "U+2C6F">>,
      <<"U+0251", "U+2C6D">>, <<"U+0252", "U+2C70">>, <<"U+0253", "U+0181">>,
      <<"U+0254", "U+0186">>, <<"U+0256", "U+0189">>, <<"U+0257", "U+018A">>,
      <<"U+0259", "U+018F">>, <<"U+025B", "U+0190">>, <<"U+025C", "U+A7AB">>,
      <<"U+0260", "U+0193">>, <<"U+0261", "U+A7AC">>, <<"U+0263", "U+0194">>,
      <<"U+0265", "U+A78D">>, <<"U+0266", "U+A7AA">>, <<"U+0268", "U+0197">>,
      <<"U+0269", "U+0196">>, <<"U+026A", "U+A7AE">>, <<"U+026B", "U+2C62">>,
      <<"U+026C", "U+A7AD">>, <<"U+026F", "U+019C">>, <<"U+0271", "U+2C6E">>,
      <<"U+0272", "U+019D">>, <<"U+0275", "U+019F">>, <<"U+027D", "U+2C64">>,
      <<"U+0280", "U+01A6">>, <<"U+0282", "U+A7C5">>, <<"U+0283", "U+01A9">>,
      <<"U+0287", "U+A7B1">>, <<"U+0288", "U+01AE">>, <<"U+0289", "U+0244">>,
      <<"U+028A", "U+01B1">>, <<"U+028B", "U+01B2">>, <<"U+028C", "U+0245">>,
      <<"U+0292", "U+01B7">>, <<"U+029D", "U+A7B2">>, <<"U+029E", "U+A7B0">>,
      <<"U+0345", "U+0399">>, <<"U+0371", "U+0370">>, <<"U+0373", "U+0372">>,
      <<"U+0377", "U+0376">>, <<"U+037B", "U+03FD">>, <<"U+037C", "U+03FE">>,
      <<"U+037D", "U+03FF">>, <<"U+03AC", "U+0386">>, <<"U+03AD", "U+0388">>,
      <<"U+03AE", "U+0389">>, <<"U+03AF", "U+038A">>, <<"U+03B1", "U+0391">>,
      <<"U+03B2", "U+0392">>, <<"U+03B3", "U+0393">>, <<"U+03B4", "U+0394">>,
      <<"U+03B5", "U+0395">>, <<"U+03B6", "U+0396">>, <<"U+03B7", "U+0397">>,
      <<"U+03B8", "U+0398">>, <<"U+03B9", "U+0399">>, <<"U+03BA", "U+039A">>,
      <<"U+03BB", "U+039B">>, <<"U+03BC", "U+039C">>, <<"U+03BD", "U+039D">>,
      <<"U+03BE", "U+039E">>, <<"U+03BF", "U+039F">>, <<"U+03C0", "U+03A0">>,
      <<"U+03C1", "U+03A1">>, <<"U+03C2", "U+03A3">>, <<"U+03C3", "U+03A3">>,
      <<"U+03C4", "U+03A4">>, <<"U+03C5", "U+03A5">>, <<"U+03C6", "U+03A6">>,
      <<"U+03C7", "U+03A7">>, <<"U+03C8", "U+03A8">>, <<"U+03C9", "U+03A9">>,
      <<"U+03CA", "U+03AA">>, <<"U+03CB", "U+03AB">>, <<"U+03CC", "U+038C">>,
      <<"U+03CD", "U+038E">>, <<"U+03CE", "U+038F">>, <<"U+03D0", "U+0392">>,
      <<"U+03D1", "U+0398">>, <<"U+03D5", "U+03A6">>, <<"U+03D6", "U+03A0">>,
      <<"U+03D7", "U+03CF">>, <<"U+03D9", "U+03D8">>, <<"U+03DB", "U+03DA">>,
      <<"U+03DD", "U+03DC">>, <<"U+03DF", "U+03DE">>, <<"U+03E1", "U+03E0">>,
      <<"U+03E3", "U+03E2">>, <<"U+03E5", "U+03E4">>, <<"U+03E7", "U+03E6">>,
      <<"U+03E9", "U+03E8">>, <<"U+03EB", "U+03EA">>, <<"U+03ED", "U+03EC">>,
      <<"U+03EF", "U+03EE">>, <<"U+03F0", "U+039A">>, <<"U+03F1", "U+03A1">>,
      <<"U+03F2", "U+03F9">>, <<"U+03F3", "U+037F">>, <<"U+03F5", "U+0395">>,
      <<"U+03F8", "U+03F7">>, <<"U+03FB", "U+03FA">>, <<"U+0430", "U+0410">>,
      <<"U+0431", "U+0411">>, <<"U+0432", "U+0412">>, <<"U+0433", "U+0413">>,
      <<"U+0434", "U+0414">>, <<"U+0435", "U+0415">>, <<"U+0436", "U+0416">>,
      <<"U+0437", "U+0417">>, <<"U+0438", "U+0418">>, <<"U+0439", "U+0419">>,
      <<"U+043A", "U+041A">>, <<"U+043B", "U+041B">>, <<"U+043C", "U+041C">>,
      <<"U+043D", "U+041D">>, <<"U+043E", "U+041E">>, <<"U+043F", "U+041F">>,
      <<"U+0440", "U+0420">>, <<"U+0441", "U+0421">>, <<"U+0442", "U+0422">>,
      <<"U+0443", "U+0423">>, <<"U+0444", "U+0424">>, <<"U+0445", "U+0425">>,
      <<"U+0446", "U+0426">>, <<"U+0447", "U+0427">>, <<"U+0448", "U+0428">>,
      <<"U+0449", "U+0429">>, <<"U+044A", "U+042A">>, <<"U+044B", "U+042B">>,
      <<"U+044C", "U+042C">>, <<"U+044D", "U+042D">>, <<"U+044E", "U+042E">>,
      <<"U+044F", "U+042F">>, <<"U+0450", "U+0400">>, <<"U+0451", "U+0401">>,
      <<"U+0452", "U+0402">>, <<"U+0453", "U+0403">>, <<"U+0454", "U+0404">>,
      <<"U+0455", "U+0405">>, <<"U+0456", "U+0406">>, <<"U+0457", "U+0407">>,
      <<"U+0458", "U+0408">>, <<"U+0459", "U+0409">>, <<"U+045A", "U+040A">>,
      <<"U+045B", "U+040B">>, <<"U+045C", "U+040C">>, <<"U+045D", "U+040D">>,
      <<"U+045E", "U+040E">>, <<"U+045F", "U+040F">>, <<"U+0461", "U+0460">>,
      <<"U+0463", "U+0462">>, <<"U+0465", "U+0464">>, <<"U+0467", "U+0466">>,
      <<"U+0469", "U+0468">>, <<"U+046B", "U+046A">>, <<"U+046D", "U+046C">>,
      <<"U+046F", "U+046E">>, <<"U+0471", "U+0470">>, <<"U+0473", "U+0472">>,
      <<"U+0475", "U+0474">>, <<"U+0477", "U+0476">>, <<"U+0479", "U+0478">>,
      <<"U+047B", "U+047A">>, <<"U+047D", "U+047C">>, <<"U+047F", "U+047E">>,
      <<"U+0481", "U+0480">>, <<"U+048B", "U+048A">>, <<"U+048D", "U+048C">>,
      <<"U+048F", "U+048E">>, <<"U+0491", "U+0490">>, <<"U+0493", "U+0492">>,
      <<"U+0495", "U+0494">>, <<"U+0497", "U+0496">>, <<"U+0499", "U+0498">>,
      <<"U+049B", "U+049A">>, <<"U+049D", "U+049C">>, <<"U+049F", "U+049E">>,
      <<"U+04A1", "U+04A0">>, <<"U+04A3", "U+04A2">>, <<"U+04A5", "U+04A4">>,
      <<"U+04A7", "U+04A6">>, <<"U+04A9", "U+04A8">>, <<"U+04AB", "U+04AA">>,
      <<"U+04AD", "U+04AC">>, <<"U+04AF", "U+04AE">>, <<"U+04B1", "U+04B0">>,
      <<"U+04B3", "U+04B2">>, <<"U+04B5", "U+04B4">>, <<"U+04B7", "U+04B6">>,
      <<"U+04B9", "U+04B8">>, <<"U+04BB", "U+04BA">>, <<"U+04BD", "U+04BC">>,
      <<"U+04BF", "U+04BE">>, <<"U+04C2", "U+04C1">>, <<"U+04C4", "U+04C3">>,
      <<"U+04C6", "U+04C5">>, <<"U+04C8", "U+04C7">>, <<"U+04CA", "U+04C9">>,
      <<"U+04CC", "U+04CB">>, <<"U+04CE", "U+04CD">>, <<"U+04CF", "U+04C0">>,
      <<"U+04D1", "U+04D0">>, <<"U+04D3", "U+04D2">>, <<"U+04D5", "U+04D4">>,
      <<"U+04D7", "U+04D6">>, <<"U+04D9", "U+04D8">>, <<"U+04DB", "U+04DA">>,
      <<"U+04DD", "U+04DC">>, <<"U+04DF", "U+04DE">>, <<"U+04E1", "U+04E0">>,
      <<"U+04E3", "U+04E2">>, <<"U+04E5", "U+04E4">>, <<"U+04E7", "U+04E6">>,
      <<"U+04E9", "U+04E8">>, <<"U+04EB", "U+04EA">>, <<"U+04ED", "U+04EC">>,
      <<"U+04EF", "U+04EE">>, <<"U+04F1", "U+04F0">>, <<"U+04F3", "U+04F2">>,
      <<"U+04F5", "U+04F4">>, <<"U+04F7", "U+04F6">>, <<"U+04F9", "U+04F8">>,
      <<"U+04FB", "U+04FA">>, <<"U+04FD", "U+04FC">>, <<"U+04FF", "U+04FE">>,
      <<"U+0501", "U+0500">>, <<"U+0503", "U+0502">>, <<"U+0505", "U+0504">>,
      <<"U+0507", "U+0506">>, <<"U+0509", "U+0508">>, <<"U+050B", "U+050A">>,
      <<"U+050D", "U+050C">>, <<"U+050F", "U+050E">>, <<"U+0511", "U+0510">>,
      <<"U+0513", "U+0512">>, <<"U+0515", "U+0514">>, <<"U+0517", "U+0516">>,
      <<"U+0519", "U+0518">>, <<"U+051B", "U+051A">>, <<"U+051D", "U+051C">>,
      <<"U+051F", "U+051E">>, <<"U+0521", "U+0520">>, <<"U+0523", "U+0522">>,
      <<"U+0525", "U+0524">>, <<"U+0527", "U+0526">>, <<"U+0529", "U+0528">>,
      <<"U+052B", "U+052A">>, <<"U+052D", "U+052C">>, <<"U+052F", "U+052E">>,
      <<"U+0561", "U+0531">>, <<"U+0562", "U+0532">>, <<"U+0563", "U+0533">>,
      <<"U+0564", "U+0534">>, <<"U+0565", "U+0535">>, <<"U+0566", "U+0536">>,
      <<"U+0567", "U+0537">>, <<"U+0568", "U+0538">>, <<"U+0569", "U+0539">>,
      <<"U+056A", "U+053A">>, <<"U+056B", "U+053B">>, <<"U+056C", "U+053C">>,
      <<"U+056D", "U+053D">>, <<"U+056E", "U+053E">>, <<"U+056F", "U+053F">>,
      <<"U+0570", "U+0540">>, <<"U+0571", "U+0541">>, <<"U+0572", "U+0542">>,
      <<"U+0573", "U+0543">>, <<"U+0574", "U+0544">>, <<"U+0575", "U+0545">>,
      <<"U+0576", "U+0546">>, <<"U+0577", "U+0547">>, <<"U+0578", "U+0548">>,
      <<"U+0579", "U+0549">>, <<"U+057A", "U+054A">>, <<"U+057B", "U+054B">>,
      <<"U+057C", "U+054C">>, <<"U+057D", "U+054D">>, <<"U+057E", "U+054E">>,
      <<"U+057F", "U+054F">>, <<"U+0580", "U+0550">>, <<"U+0581", "U+0551">>,
      <<"U+0582", "U+0552">>, <<"U+0583", "U+0553">>, <<"U+0584", "U+0554">>,
      <<"U+0585", "U+0555">>, <<"U+0586", "U+0556">>, <<"U+10D0", "U+1C90">>,
      <<"U+10D1", "U+1C91">>, <<"U+10D2", "U+1C92">>, <<"U+10D3", "U+1C93">>,
      <<"U+10D4", "U+1C94">>, <<"U+10D5", "U+1C95">>, <<"U+10D6", "U+1C96">>,
      <<"U+10D7", "U+1C97">>, <<"U+10D8", "U+1C98">>, <<"U+10D9", "U+1C99">>,
      <<"U+10DA", "U+1C9A">>, <<"U+10DB", "U+1C9B">>, <<"U+10DC", "U+1C9C">>,
      <<"U+10DD", "U+1C9D">>, <<"U+10DE", "U+1C9E">>, <<"U+10DF", "U+1C9F">>,
      <<"U+10E0", "U+1CA0">>, <<"U+10E1", "U+1CA1">>, <<"U+10E2", "U+1CA2">>,
      <<"U+10E3", "U+1CA3">>, <<"U+10E4", "U+1CA4">>, <<"U+10E5", "U+1CA5">>,
      <<"U+10E6", "U+1CA6">>, <<"U+10E7", "U+1CA7">>, <<"U+10E8", "U+1CA8">>,
      <<"U+10E9", "U+1CA9">>, <<"U+10EA", "U+1CAA">>, <<"U+10EB", "U+1CAB">>,
      <<"U+10EC", "U+1CAC">>, <<"U+10ED", "U+1CAD">>, <<"U+10EE", "U+1CAE">>,
      <<"U+10EF", "U+1CAF">>, <<"U+10F0", "U+1CB0">>, <<"U+10F1", "U+1CB1">>,
      <<"U+10F2", "U+1CB2">>, <<"U+10F3", "U+1CB3">>, <<"U+10F4", "U+1CB4">>,
      <<"U+10F5", "U+1CB5">>, <<"U+10F6", "U+1CB6">>, <<"U+10F7", "U+1CB7">>,
      <<"U+10F8", "U+1CB8">>, <<"U+10F9", "U+1CB9">>, <<"U+10FA", "U+1CBA">>,
      <<"U+10FD", "U+1CBD">>, <<"U+10FE", "U+1CBE">>, <<"U+10FF", "U+1CBF">>,
      <<"U+13F8", "U+13F0">>, <<"U+13F9", "U+13F1">>, <<"U+13FA", "U+13F2">>,
      <<"U+13FB", "U+13F3">>, <<"U+13FC", "U+13F4">>, <<"U+13FD", "U+13F5">>,
      <<"U+1C80", "U+0412">>, <<"U+1C81", "U+0414">>, <<"U+1C82", "U+041E">>,
      <<"U+1C83", "U+0421">>, <<"U+1C84", "U+0422">>, <<"U+1C85", "U+0422">>,
      <<"U+1C86", "U+042A">>, <<"U+1C87", "U+0462">>, <<"U+1C88", "U+A64A">>,
      <<"U+1D79", "U+A77D">>, <<"U+1D7D", "U+2C63">>, <<"U+1D8E", "U+A7C6">>,
      <<"U+1E01", "U+1E00">>, <<"U+1E03", "U+1E02">>, <<"U+1E05", "U+1E04">>,
      <<"U+1E07", "U+1E06">>, <<"U+1E09", "U+1E08">>, <<"U+1E0B", "U+1E0A">>,
      <<"U+1E0D", "U+1E0C">>, <<"U+1E0F", "U+1E0E">>, <<"U+1E11", "U+1E10">>,
      <<"U+1E13", "U+1E12">>, <<"U+1E15", "U+1E14">>, <<"U+1E17", "U+1E16">>,
      <<"U+1E19", "U+1E18">>, <<"U+1E1B", "U+1E1A">>, <<"U+1E1D", "U+1E1C">>,
      <<"U+1E1F", "U+1E1E">>, <<"U+1E21", "U+1E20">>, <<"U+1E23", "U+1E22">>,
      <<"U+1E25", "U+1E24">>, <<"U+1E27", "U+1E26">>, <<"U+1E29", "U+1E28">>,
      <<"U+1E2B", "U+1E2A">>, <<"U+1E2D", "U+1E2C">>, <<"U+1E2F", "U+1E2E">>,
      <<"U+1E31", "U+1E30">>, <<"U+1E33", "U+1E32">>, <<"U+1E35", "U+1E34">>,
      <<"U+1E37", "U+1E36">>, <<"U+1E39", "U+1E38">>, <<"U+1E3B", "U+1E3A">>,
      <<"U+1E3D", "U+1E3C">>, <<"U+1E3F", "U+1E3E">>, <<"U+1E41", "U+1E40">>,
      <<"U+1E43", "U+1E42">>, <<"U+1E45", "U+1E44">>, <<"U+1E47", "U+1E46">>,
      <<"U+1E49", "U+1E48">>, <<"U+1E4B", "U+1E4A">>, <<"U+1E4D", "U+1E4C">>,
      <<"U+1E4F", "U+1E4E">>, <<"U+1E51", "U+1E50">>, <<"U+1E53", "U+1E52">>,
      <<"U+1E55", "U+1E54">>, <<"U+1E57", "U+1E56">>, <<"U+1E59", "U+1E58">>,
      <<"U+1E5B", "U+1E5A">>, <<"U+1E5D", "U+1E5C">>, <<"U+1E5F", "U+1E5E">>,
      <<"U+1E61", "U+1E60">>, <<"U+1E63", "U+1E62">>, <<"U+1E65", "U+1E64">>,
      <<"U+1E67", "U+1E66">>, <<"U+1E69", "U+1E68">>, <<"U+1E6B", "U+1E6A">>,
      <<"U+1E6D", "U+1E6C">>, <<"U+1E6F", "U+1E6E">>, <<"U+1E71", "U+1E70">>,
      <<"U+1E73", "U+1E72">>, <<"U+1E75", "U+1E74">>, <<"U+1E77", "U+1E76">>,
      <<"U+1E79", "U+1E78">>, <<"U+1E7B", "U+1E7A">>, <<"U+1E7D", "U+1E7C">>,
      <<"U+1E7F", "U+1E7E">>, <<"U+1E81", "U+1E80">>, <<"U+1E83", "U+1E82">>,
      <<"U+1E85", "U+1E84">>, <<"U+1E87", "U+1E86">>, <<"U+1E89", "U+1E88">>,
      <<"U+1E8B", "U+1E8A">>, <<"U+1E8D", "U+1E8C">>, <<"U+1E8F", "U+1E8E">>,
      <<"U+1E91", "U+1E90">>, <<"U+1E93", "U+1E92">>, <<"U+1E95", "U+1E94">>,
      <<"U+1E9B", "U+1E60">>, <<"U+1EA1", "U+1EA0">>, <<"U+1EA3", "U+1EA2">>,
      <<"U+1EA5", "U+1EA4">>, <<"U+1EA7", "U+1EA6">>, <<"U+1EA9", "U+1EA8">>,
      <<"U+1EAB", "U+1EAA">>, <<"U+1EAD", "U+1EAC">>, <<"U+1EAF", "U+1EAE">>,
      <<"U+1EB1", "U+1EB0">>, <<"U+1EB3", "U+1EB2">>, <<"U+1EB5", "U+1EB4">>,
      <<"U+1EB7", "U+1EB6">>, <<"U+1EB9", "U+1EB8">>, <<"U+1EBB", "U+1EBA">>,
      <<"U+1EBD", "U+1EBC">>, <<"U+1EBF", "U+1EBE">>, <<"U+1EC1", "U+1EC0">>,
      <<"U+1EC3", "U+1EC2">>, <<"U+1EC5", "U+1EC4">>, <<"U+1EC7", "U+1EC6">>,
      <<"U+1EC9", "U+1EC8">>, <<"U+1ECB", "U+1ECA">>, <<"U+1ECD", "U+1ECC">>,
      <<"U+1ECF", "U+1ECE">>, <<"U+1ED1", "U+1ED0">>, <<"U+1ED3", "U+1ED2">>,
      <<"U+1ED5", "U+1ED4">>, <<"U+1ED7", "U+1ED6">>, <<"U+1ED9", "U+1ED8">>,
      <<"U+1EDB", "U+1EDA">>, <<"U+1EDD", "U+1EDC">>, <<"U+1EDF", "U+1EDE">>,
      <<"U+1EE1", "U+1EE0">>, <<"U+1EE3", "U+1EE2">>, <<"U+1EE5", "U+1EE4">>,
      <<"U+1EE7", "U+1EE6">>, <<"U+1EE9", "U+1EE8">>, <<"U+1EEB", "U+1EEA">>,
      <<"U+1EED", "U+1EEC">>, <<"U+1EEF", "U+1EEE">>, <<"U+1EF1", "U+1EF0">>,
      <<"U+1EF3", "U+1EF2">>, <<"U+1EF5", "U+1EF4">>, <<"U+1EF7", "U+1EF6">>,
      <<"U+1EF9", "U+1EF8">>, <<"U+1EFB", "U+1EFA">>, <<"U+1EFD", "U+1EFC">>,
      <<"U+1EFF", "U+1EFE">>, <<"U+1F00", "U+1F08">>, <<"U+1F01", "U+1F09">>,
      <<"U+1F02", "U+1F0A">>, <<"U+1F03", "U+1F0B">>, <<"U+1F04", "U+1F0C">>,
      <<"U+1F05", "U+1F0D">>, <<"U+1F06", "U+1F0E">>, <<"U+1F07", "U+1F0F">>,
      <<"U+1F10", "U+1F18">>, <<"U+1F11", "U+1F19">>, <<"U+1F12", "U+1F1A">>,
      <<"U+1F13", "U+1F1B">>, <<"U+1F14", "U+1F1C">>, <<"U+1F15", "U+1F1D">>,
      <<"U+1F20", "U+1F28">>, <<"U+1F21", "U+1F29">>, <<"U+1F22", "U+1F2A">>,
      <<"U+1F23", "U+1F2B">>, <<"U+1F24", "U+1F2C">>, <<"U+1F25", "U+1F2D">>,
      <<"U+1F26", "U+1F2E">>, <<"U+1F27", "U+1F2F">>, <<"U+1F30", "U+1F38">>,
      <<"U+1F31", "U+1F39">>, <<"U+1F32", "U+1F3A">>, <<"U+1F33", "U+1F3B">>,
      <<"U+1F34", "U+1F3C">>, <<"U+1F35", "U+1F3D">>, <<"U+1F36", "U+1F3E">>,
      <<"U+1F37", "U+1F3F">>, <<"U+1F40", "U+1F48">>, <<"U+1F41", "U+1F49">>,
      <<"U+1F42", "U+1F4A">>, <<"U+1F43", "U+1F4B">>, <<"U+1F44", "U+1F4C">>,
      <<"U+1F45", "U+1F4D">>, <<"U+1F51", "U+1F59">>, <<"U+1F53", "U+1F5B">>,
      <<"U+1F55", "U+1F5D">>, <<"U+1F57", "U+1F5F">>, <<"U+1F60", "U+1F68">>,
      <<"U+1F61", "U+1F69">>, <<"U+1F62", "U+1F6A">>, <<"U+1F63", "U+1F6B">>,
      <<"U+1F64", "U+1F6C">>, <<"U+1F65", "U+1F6D">>, <<"U+1F66", "U+1F6E">>,
      <<"U+1F67", "U+1F6F">>, <<"U+1F70", "U+1FBA">>, <<"U+1F71", "U+1FBB">>,
      <<"U+1F72", "U+1FC8">>, <<"U+1F73", "U+1FC9">>, <<"U+1F74", "U+1FCA">>,
      <<"U+1F75", "U+1FCB">>, <<"U+1F76", "U+1FDA">>, <<"U+1F77", "U+1FDB">>,
      <<"U+1F78", "U+1FF8">>, <<"U+1F79", "U+1FF9">>, <<"U+1F7A", "U+1FEA">>,
      <<"U+1F7B", "U+1FEB">>, <<"U+1F7C", "U+1FFA">>, <<"U+1F7D", "U+1FFB">>,
      <<"U+1FB0", "U+1FB8">>, <<"U+1FB1", "U+1FB9">>, <<"U+1FBE", "U+0399">>,
      <<"U+1FD0", "U+1FD8">>, <<"U+1FD1", "U+1FD9">>, <<"U+1FE0", "U+1FE8">>,
      <<"U+1FE1", "U+1FE9">>, <<"U+1FE5", "U+1FEC">>, <<"U+214E", "U+2132">>,
      <<"U+2170", "U+2160">>, <<"U+2171", "U+2161">>, <<"U+2172", "U+2162">>,
      <<"U+2173", "U+2163">>, <<"U+2174", "U+2164">>, <<"U+2175", "U+2165">>,
      <<"U+2176", "U+2166">>, <<"U+2177", "U+2167">>, <<"U+2178", "U+2168">>,
      <<"U+2179", "U+2169">>, <<"U+217A", "U+216A">>, <<"U+217B", "U+216B">>,
      <<"U+217C", "U+216C">>, <<"U+217D", "U+216D">>, <<"U+217E", "U+216E">>,
      <<"U+217F", "U+216F">>, <<"U+2184", "U+2183">>, <<"U+24D0", "U+24B6">>,
      <<"U+24D1", "U+24B7">>, <<"U+24D2", "U+24B8">>, <<"U+24D3", "U+24B9">>,
      <<"U+24D4", "U+24BA">>, <<"U+24D5", "U+24BB">>, <<"U+24D6", "U+24BC">>,
      <<"U+24D7", "U+24BD">>, <<"U+24D8", "U+24BE">>, <<"U+24D9", "U+24BF">>,
      <<"U+24DA", "U+24C0">>, <<"U+24DB", "U+24C1">>, <<"U+24DC", "U+24C2">>,
      <<"U+24DD", "U+24C3">>, <<"U+24DE", "U+24C4">>, <<"U+24DF", "U+24C5">>,
      <<"U+24E0", "U+24C6">>, <<"U+24E1", "U+24C7">>, <<"U+24E2", "U+24C8">>,
      <<"U+24E3", "U+24C9">>, <<"U+24E4", "U+24CA">>, <<"U+24E5", "U+24CB">>,
      <<"U+24E6", "U+24CC">>, <<"U+24E7", "U+24CD">>, <<"U+24E8", "U+24CE">>,
      <<"U+24E9", "U+24CF">>, <<"U+2C30", "U+2C00">>, <<"U+2C31", "U+2C01">>,
      <<"U+2C32", "U+2C02">>, <<"U+2C33", "U+2C03">>, <<"U+2C34", "U+2C04">>,
      <<"U+2C35", "U+2C05">>, <<"U+2C36", "U+2C06">>, <<"U+2C37", "U+2C07">>,
      <<"U+2C38", "U+2C08">>, <<"U+2C39", "U+2C09">>, <<"U+2C3A", "U+2C0A">>,
      <<"U+2C3B", "U+2C0B">>, <<"U+2C3C", "U+2C0C">>, <<"U+2C3D", "U+2C0D">>,
      <<"U+2C3E", "U+2C0E">>, <<"U+2C3F", "U+2C0F">>, <<"U+2C40", "U+2C10">>,
      <<"U+2C41", "U+2C11">>, <<"U+2C42", "U+2C12">>, <<"U+2C43", "U+2C13">>,
      <<"U+2C44", "U+2C14">>, <<"U+2C45", "U+2C15">>, <<"U+2C46", "U+2C16">>,
      <<"U+2C47", "U+2C17">>, <<"U+2C48", "U+2C18">>, <<"U+2C49", "U+2C19">>,
      <<"U+2C4A", "U+2C1A">>, <<"U+2C4B", "U+2C1B">>, <<"U+2C4C", "U+2C1C">>,
      <<"U+2C4D", "U+2C1D">>, <<"U+2C4E", "U+2C1E">>, <<"U+2C4F", "U+2C1F">>,
      <<"U+2C50", "U+2C20">>, <<"U+2C51", "U+2C21">>, <<"U+2C52", "U+2C22">>,
      <<"U+2C53", "U+2C23">>, <<"U+2C54", "U+2C24">>, <<"U+2C55", "U+2C25">>,
      <<"U+2C56", "U+2C26">>, <<"U+2C57", "U+2C27">>, <<"U+2C58", "U+2C28">>,
      <<"U+2C59", "U+2C29">>, <<"U+2C5A", "U+2C2A">>, <<"U+2C5B", "U+2C2B">>,
      <<"U+2C5C", "U+2C2C">>, <<"U+2C5D", "U+2C2D">>, <<"U+2C5E", "U+2C2E">>,
      <<"U+2C5F", "U+2C2F">>, <<"U+2C61", "U+2C60">>, <<"U+2C65", "U+023A">>,
      <<"U+2C66", "U+023E">>, <<"U+2C68", "U+2C67">>, <<"U+2C6A", "U+2C69">>,
      <<"U+2C6C", "U+2C6B">>, <<"U+2C73", "U+2C72">>, <<"U+2C76", "U+2C75">>,
      <<"U+2C81", "U+2C80">>, <<"U+2C83", "U+2C82">>, <<"U+2C85", "U+2C84">>,
      <<"U+2C87", "U+2C86">>, <<"U+2C89", "U+2C88">>, <<"U+2C8B", "U+2C8A">>,
      <<"U+2C8D", "U+2C8C">>, <<"U+2C8F", "U+2C8E">>, <<"U+2C91", "U+2C90">>,
      <<"U+2C93", "U+2C92">>, <<"U+2C95", "U+2C94">>, <<"U+2C97", "U+2C96">>,
      <<"U+2C99", "U+2C98">>, <<"U+2C9B", "U+2C9A">>, <<"U+2C9D", "U+2C9C">>,
      <<"U+2C9F", "U+2C9E">>, <<"U+2CA1", "U+2CA0">>, <<"U+2CA3", "U+2CA2">>,
      <<"U+2CA5", "U+2CA4">>, <<"U+2CA7", "U+2CA6">>, <<"U+2CA9", "U+2CA8">>,
      <<"U+2CAB", "U+2CAA">>, <<"U+2CAD", "U+2CAC">>, <<"U+2CAF", "U+2CAE">>,
      <<"U+2CB1", "U+2CB0">>, <<"U+2CB3", "U+2CB2">>, <<"U+2CB5", "U+2CB4">>,
      <<"U+2CB7", "U+2CB6">>, <<"U+2CB9", "U+2CB8">>, <<"U+2CBB", "U+2CBA">>,
      <<"U+2CBD", "U+2CBC">>, <<"U+2CBF", "U+2CBE">>, <<"U+2CC1", "U+2CC0">>,
      <<"U+2CC3", "U+2CC2">>, <<"U+2CC5", "U+2CC4">>, <<"U+2CC7", "U+2CC6">>,
      <<"U+2CC9", "U+2CC8">>, <<"U+2CCB", "U+2CCA">>, <<"U+2CCD", "U+2CCC">>,
      <<"U+2CCF", "U+2CCE">>, <<"U+2CD1", "U+2CD0">>, <<"U+2CD3", "U+2CD2">>,
      <<"U+2CD5", "U+2CD4">>, <<"U+2CD7", "U+2CD6">>, <<"U+2CD9", "U+2CD8">>,
      <<"U+2CDB", "U+2CDA">>, <<"U+2CDD", "U+2CDC">>, <<"U+2CDF", "U+2CDE">>,
      <<"U+2CE1", "U+2CE0">>, <<"U+2CE3", "U+2CE2">>, <<"U+2CEC", "U+2CEB">>,
      <<"U+2CEE", "U+2CED">>, <<"U+2CF3", "U+2CF2">>, <<"U+2D00", "U+10A0">>,
      <<"U+2D01", "U+10A1">>, <<"U+2D02", "U+10A2">>, <<"U+2D03", "U+10A3">>,
      <<"U+2D04", "U+10A4">>, <<"U+2D05", "U+10A5">>, <<"U+2D06", "U+10A6">>,
      <<"U+2D07", "U+10A7">>, <<"U+2D08", "U+10A8">>, <<"U+2D09", "U+10A9">>,
      <<"U+2D0A", "U+10AA">>, <<"U+2D0B", "U+10AB">>, <<"U+2D0C", "U+10AC">>,
      <<"U+2D0D", "U+10AD">>, <<"U+2D0E", "U+10AE">>, <<"U+2D0F", "U+10AF">>,
      <<"U+2D10", "U+10B0">>, <<"U+2D11", "U+10B1">>, <<"U+2D12", "U+10B2">>,
      <<"U+2D13", "U+10B3">>, <<"U+2D14", "U+10B4">>, <<"U+2D15", "U+10B5">>,
      <<"U+2D16", "U+10B6">>, <<"U+2D17", "U+10B7">>, <<"U+2D18", "U+10B8">>,
      <<"U+2D19", "U+10B9">>, <<"U+2D1A", "U+10BA">>, <<"U+2D1B", "U+10BB">>,
      <<"U+2D1C", "U+10BC">>, <<"U+2D1D", "U+10BD">>, <<"U+2D1E", "U+10BE">>,
      <<"U+2D1F", "U+10BF">>, <<"U+2D20", "U+10C0">>, <<"U+2D21", "U+10C1">>,
      <<"U+2D22", "U+10C2">>, <<"U+2D23", "U+10C3">>, <<"U+2D24", "U+10C4">>,
      <<"U+2D25", "U+10C5">>, <<"U+2D27", "U+10C7">>, <<"U+2D2D", "U+10CD">>,
      <<"U+A641", "U+A640">>, <<"U+A643", "U+A642">>, <<"U+A645", "U+A644">>,
      <<"U+A647", "U+A646">>, <<"U+A649", "U+A648">>, <<"U+A64B", "U+A64A">>,
      <<"U+A64D", "U+A64C">>, <<"U+A64F", "U+A64E">>, <<"U+A651", "U+A650">>,
      <<"U+A653", "U+A652">>, <<"U+A655", "U+A654">>, <<"U+A657", "U+A656">>,
      <<"U+A659", "U+A658">>, <<"U+A65B", "U+A65A">>, <<"U+A65D", "U+A65C">>,
      <<"U+A65F", "U+A65E">>, <<"U+A661", "U+A660">>, <<"U+A663", "U+A662">>,
      <<"U+A665", "U+A664">>, <<"U+A667", "U+A666">>, <<"U+A669", "U+A668">>,
      <<"U+A66B", "U+A66A">>, <<"U+A66D", "U+A66C">>, <<"U+A681", "U+A680">>,
      <<"U+A683", "U+A682">>, <<"U+A685", "U+A684">>, <<"U+A687", "U+A686">>,
      <<"U+A689", "U+A688">>, <<"U+A68B", "U+A68A">>, <<"U+A68D", "U+A68C">>,
      <<"U+A68F", "U+A68E">>, <<"U+A691", "U+A690">>, <<"U+A693", "U+A692">>,
      <<"U+A695", "U+A694">>, <<"U+A697", "U+A696">>, <<"U+A699", "U+A698">>,
      <<"U+A69B", "U+A69A">>, <<"U+A723", "U+A722">>, <<"U+A725", "U+A724">>,
      <<"U+A727", "U+A726">>, <<"U+A729", "U+A728">>, <<"U+A72B", "U+A72A">>,
      <<"U+A72D", "U+A72C">>, <<"U+A72F", "U+A72E">>, <<"U+A733", "U+A732">>,
      <<"U+A735", "U+A734">>, <<"U+A737", "U+A736">>, <<"U+A739", "U+A738">>,
      <<"U+A73B", "U+A73A">>, <<"U+A73D", "U+A73C">>, <<"U+A73F", "U+A73E">>,
      <<"U+A741", "U+A740">>, <<"U+A743", "U+A742">>, <<"U+A745", "U+A744">>,
      <<"U+A747", "U+A746">>, <<"U+A749", "U+A748">>, <<"U+A74B", "U+A74A">>,
      <<"U+A74D", "U+A74C">>, <<"U+A74F", "U+A74E">>, <<"U+A751", "U+A750">>,
      <<"U+A753", "U+A752">>, <<"U+A755", "U+A754">>, <<"U+A757", "U+A756">>,
      <<"U+A759", "U+A758">>, <<"U+A75B", "U+A75A">>, <<"U+A75D", "U+A75C">>,
      <<"U+A75F", "U+A75E">>, <<"U+A761", "U+A760">>, <<"U+A763", "U+A762">>,
      <<"U+A765", "U+A764">>, <<"U+A767", "U+A766">>, <<"U+A769", "U+A768">>,
      <<"U+A76B", "U+A76A">>, <<"U+A76D", "U+A76C">>, <<"U+A76F", "U+A76E">>,
      <<"U+A77A", "U+A779">>, <<"U+A77C", "U+A77B">>, <<"U+A77F", "U+A77E">>,
      <<"U+A781", "U+A780">>, <<"U+A783", "U+A782">>, <<"U+A785", "U+A784">>,
      <<"U+A787", "U+A786">>, <<"U+A78C", "U+A78B">>, <<"U+A791", "U+A790">>,
      <<"U+A793", "U+A792">>, <<"U+A794", "U+A7C4">>, <<"U+A797", "U+A796">>,
      <<"U+A799", "U+A798">>, <<"U+A79B", "U+A79A">>, <<"U+A79D", "U+A79C">>,
      <<"U+A79F", "U+A79E">>, <<"U+A7A1", "U+A7A0">>, <<"U+A7A3", "U+A7A2">>,
      <<"U+A7A5", "U+A7A4">>, <<"U+A7A7", "U+A7A6">>, <<"U+A7A9", "U+A7A8">>,
      <<"U+A7B5", "U+A7B4">>, <<"U+A7B7", "U+A7B6">>, <<"U+A7B9", "U+A7B8">>,
      <<"U+A7BB", "U+A7BA">>, <<"U+A7BD", "U+A7BC">>, <<"U+A7BF", "U+A7BE">>,
      <<"U+A7C1", "U+A7C0">>, <<"U+A7C3", "U+A7C2">>, <<"U+A7C8", "U+A7C7">>,
      <<"U+A7CA", "U+A7C9">>, <<"U+A7D1", "U+A7D0">>, <<"U+A7D7", "U+A7D6">>,
      <<"U+A7D9", "U+A7D8">>, <<"U+A7F6", "U+A7F5">>, <<"U+AB53", "U+A7B3">>,
      <<"U+AB70", "U+13A0">>, <<"U+AB71", "U+13A1">>, <<"U+AB72", "U+13A2">>,
      <<"U+AB73", "U+13A3">>, <<"U+AB74", "U+13A4">>, <<"U+AB75", "U+13A5">>,
      <<"U+AB76", "U+13A6">>, <<"U+AB77", "U+13A7">>, <<"U+AB78", "U+13A8">>,
      <<"U+AB79", "U+13A9">>, <<"U+AB7A", "U+13AA">>, <<"U+AB7B", "U+13AB">>,
      <<"U+AB7C", "U+13AC">>, <<"U+AB7D", "U+13AD">>, <<"U+AB7E", "U+13AE">>,
      <<"U+AB7F", "U+13AF">>, <<"U+AB80", "U+13B0">>, <<"U+AB81", "U+13B1">>,
      <<"U+AB82", "U+13B2">>, <<"U+AB83", "U+13B3">>, <<"U+AB84", "U+13B4">>,
      <<"U+AB85", "U+13B5">>, <<"U+AB86", "U+13B6">>, <<"U+AB87", "U+13B7">>,
      <<"U+AB88", "U+13B8">>, <<"U+AB89", "U+13B9">>, <<"U+AB8A", "U+13BA">>,
      <<"U+AB8B", "U+13BB">>, <<"U+AB8C", "U+13BC">>, <<"U+AB8D", "U+13BD">>,
      <<"U+AB8E", "U+13BE">>, <<"U+AB8F", "U+13BF">>, <<"U+AB90", "U+13C0">>,
      <<"U+AB91", "U+13C1">>, <<"U+AB92", "U+13C2">>, <<"U+AB93", "U+13C3">>,
      <<"U+AB94", "U+13C4">>, <<"U+AB95", "U+13C5">>, <<"U+AB96", "U+13C6">>,
      <<"U+AB97", "U+13C7">>, <<"U+AB98", "U+13C8">>, <<"U+AB99", "U+13C9">>,
      <<"U+AB9A", "U+13CA">>, <<"U+AB9B", "U+13CB">>, <<"U+AB9C", "U+13CC">>,
      <<"U+AB9D", "U+13CD">>, <<"U+AB9E", "U+13CE">>, <<"U+AB9F", "U+13CF">>,
      <<"U+ABA0", "U+13D0">>, <<"U+ABA1", "U+13D1">>, <<"U+ABA2", "U+13D2">>,
      <<"U+ABA3", "U+13D3">>, <<"U+ABA4", "U+13D4">>, <<"U+ABA5", "U+13D5">>,
      <<"U+ABA6", "U+13D6">>, <<"U+ABA7", "U+13D7">>, <<"U+ABA8", "U+13D8">>,
      <<"U+ABA9", "U+13D9">>, <<"U+ABAA", "U+13DA">>, <<"U+ABAB", "U+13DB">>,
      <<"U+ABAC", "U+13DC">>, <<"U+ABAD", "U+13DD">>, <<"U+ABAE", "U+13DE">>,
      <<"U+ABAF", "U+13DF">>, <<"U+ABB0", "U+13E0">>, <<"U+ABB1", "U+13E1">>,
      <<"U+ABB2", "U+13E2">>, <<"U+ABB3", "U+13E3">>, <<"U+ABB4", "U+13E4">>,
      <<"U+ABB5", "U+13E5">>, <<"U+ABB6", "U+13E6">>, <<"U+ABB7", "U+13E7">>,
      <<"U+ABB8", "U+13E8">>, <<"U+ABB9", "U+13E9">>, <<"U+ABBA", "U+13EA">>,
      <<"U+ABBB", "U+13EB">>, <<"U+ABBC", "U+13EC">>, <<"U+ABBD", "U+13ED">>,
      <<"U+ABBE", "U+13EE">>, <<"U+ABBF", "U+13EF">>, <<"U+FF41", "U+FF21">>,
      <<"U+FF42", "U+FF22">>, <<"U+FF43", "U+FF23">>, <<"U+FF44", "U+FF24">>,
      <<"U+FF45", "U+FF25">>, <<"U+FF46", "U+FF26">>, <<"U+FF47", "U+FF27">>,
      <<"U+FF48", "U+FF28">>, <<"U+FF49", "U+FF29">>, <<"U+FF4A", "U+FF2A">>,
      <<"U+FF4B", "U+FF2B">>, <<"U+FF4C", "U+FF2C">>, <<"U+FF4D", "U+FF2D">>,
      <<"U+FF4E", "U+FF2E">>, <<"U+FF4F", "U+FF2F">>, <<"U+FF50", "U+FF30">>,
      <<"U+FF51", "U+FF31">>, <<"U+FF52", "U+FF32">>, <<"U+FF53", "U+FF33">>,
      <<"U+FF54", "U+FF34">>, <<"U+FF55", "U+FF35">>, <<"U+FF56", "U+FF36">>,
      <<"U+FF57", "U+FF37">>, <<"U+FF58", "U+FF38">>, <<"U+FF59", "U+FF39">>,
      <<"U+FF5A", "U+FF3A">>, <<"U+10428", "U+10400">>,
      <<"U+10429", "U+10401">>, <<"U+1042A", "U+10402">>,
      <<"U+1042B", "U+10403">>, <<"U+1042C", "U+10404">>,
      <<"U+1042D", "U+10405">>, <<"U+1042E", "U+10406">>,
      <<"U+1042F", "U+10407">>, <<"U+10430", "U+10408">>,
      <<"U+10431", "U+10409">>, <<"U+10432", "U+1040A">>,
      <<"U+10433", "U+1040B">>, <<"U+10434", "U+1040C">>,
      <<"U+10435", "U+1040D">>, <<"U+10436", "U+1040E">>,
      <<"U+10437", "U+1040F">>, <<"U+10438", "U+10410">>,
      <<"U+10439", "U+10411">>, <<"U+1043A", "U+10412">>,
      <<"U+1043B", "U+10413">>, <<"U+1043C", "U+10414">>,
      <<"U+1043D", "U+10415">>, <<"U+1043E", "U+10416">>,
      <<"U+1043F", "U+10417">>, <<"U+10440", "U+10418">>,
      <<"U+10441", "U+10419">>, <<"U+10442", "U+1041A">>,
      <<"U+10443", "U+1041B">>, <<"U+10444", "U+1041C">>,
      <<"U+10445", "U+1041D">>, <<"U+10446", "U+1041E">>,
      <<"U+10447", "U+1041F">>, <<"U+10448", "U+10420">>,
      <<"U+10449", "U+10421">>, <<"U+1044A", "U+10422">>,
      <<"U+1044B", "U+10423">>, <<"U+1044C", "U+10424">>,
      <<"U+1044D", "U+10425">>, <<"U+1044E", "U+10426">>,
      <<"U+1044F", "U+10427">>, <<"U+104D8", "U+104B0">>,
      <<"U+104D9", "U+104B1">>, <<"U+104DA", "U+104B2">>,
      <<"U+104DB", "U+104B3">>, <<"U+104DC", "U+104B4">>,
      <<"U+104DD", "U+104B5">>, <<"U+104DE", "U+104B6">>,
      <<"U+104DF", "U+104B7">>, <<"U+104E0", "U+104B8">>,
      <<"U+104E1", "U+104B9">>, <<"U+104E2", "U+104BA">>,
      <<"U+104E3", "U+104BB">>, <<"U+104E4", "U+104BC">>,
      <<"U+104E5", "U+104BD">>, <<"U+104E6", "U+104BE">>,
      <<"U+104E7", "U+104BF">>, <<"U+104E8", "U+104C0">>,
      <<"U+104E9", "U+104C1">>, <<"U+104EA", "U+104C2">>,
      <<"U+104EB", "U+104C3">>, <<"U+104EC", "U+104C4">>,
      <<"U+104ED", "U+104C5">>, <<"U+104EE", "U+104C6">>,
      <<"U+104EF", "U+104C7">>, <<"U+104F0", "U+104C8">>,
      <<"U+104F1", "U+104C9">>, <<"U+104F2", "U+104CA">>,
      <<"U+104F3", "U+104CB">>, <<"U+104F4", "U+104CC">>,
      <<"U+104F5", "U+104CD">>, <<"U+104F6", "U+104CE">>,
      <<"U+104F7", "U+104CF">>, <<"U+104F8", "U+104D0">>,
      <<"U+104F9", "U+104D1">>, <<"U+104FA", "U+104D2">>,
      <<"U+104FB", "U+104D3">>, <<"U+10597", "U+10570">>,
      <<"U+10598", "U+10571">>, <<"U+10599", "U+10572">>,
      <<"U+1059A", "U+10573">>, <<"U+1059B", "U+10574">>,
      <<"U+1059C", "U+10575">>, <<"U+1059D", "U+10576">>,
      <<"U+1059E", "U+10577">>, <<"U+1059F", "U+10578">>,
      <<"U+105A0", "U+10579">>, <<"U+105A1", "U+1057A">>,
      <<"U+105A3", "U+1057C">>, <<"U+105A4", "U+1057D">>,
      <<"U+105A5", "U+1057E">>, <<"U+105A6", "U+1057F">>,
      <<"U+105A7", "U+10580">>, <<"U+105A8", "U+10581">>,
      <<"U+105A9", "U+10582">>, <<"U+105AA", "U+10583">>,
      <<"U+105AB", "U+10584">>, <<"U+105AC", "U+10585">>,
      <<"U+105AD", "U+10586">>, <<"U+105AE", "U+10587">>,
      <<"U+105AF", "U+10588">>, <<"U+105B0", "U+10589">>,
      <<"U+105B1", "U+1058A">>, <<"U+105B3", "U+1058C">>,
      <<"U+105B4", "U+1058D">>, <<"U+105B5", "U+1058E">>,
      <<"U+105B6", "U+1058F">>, <<"U+105B7", "U+10590">>,
      <<"U+105B8", "U+10591">>, <<"U+105B9", "U+10592">>,
      <<"U+105BB", "U+10594">>, <<"U+105BC", "U+10595">>,
      <<"U+10CC0", "U+10C80">>, <<"U+10CC1", "U+10C81">>,
      <<"U+10CC2", "U+10C82">>, <<"U+10CC3", "U+10C83">>,
      <<"U+10CC4", "U+10C84">>, <<"U+10CC5", "U+10C85">>,
      <<"U+10CC6", "U+10C86">>, <<"U+10CC7", "U+10C87">>,
      <<"U+10CC8", "U+10C88">>, <<"U+10CC9", "U+10C89">>,
      <<"U+10CCA", "U+10C8A">>, <<"U+10CCB", "U+10C8B">>,
      <<"U+10CCC", "U+10C8C">>, <<"U+10CCD", "U+10C8D">>,
      <<"U+10CCE", "U+10C8E">>, <<"U+10CCF", "U+10C8F">>,
      <<"U+10CD0", "U+10C90">>, <<"U+10CD1", "U+10C91">>,
      <<"U+10CD2", "U+10C92">>, <<"U+10CD3", "U+10C93">>,
      <<"U+10CD4", "U+10C94">>, <<"U+10CD5", "U+10C95">>,
      <<"U+10CD6", "U+10C96">>, <<"U+10CD7", "U+10C97">>,
      <<"U+10CD8", "U+10C98">>, <<"U+10CD9", "U+10C99">>,
      <<"U+10CDA", "U+10C9A">>, <<"U+10CDB", "U+10C9B">>,
      <<"U+10CDC", "U+10C9C">>, <<"U+10CDD", "U+10C9D">>,
      <<"U+10CDE", "U+10C9E">>, <<"U+10CDF", "U+10C9F">>,
      <<"U+10CE0", "U+10CA0">>, <<"U+10CE1", "U+10CA1">>,
      <<"U+10CE2", "U+10CA2">>, <<"U+10CE3", "U+10CA3">>,
      <<"U+10CE4", "U+10CA4">>, <<"U+10CE5", "U+10CA5">>,
      <<"U+10CE6", "U+10CA6">>, <<"U+10CE7", "U+10CA7">>,
      <<"U+10CE8", "U+10CA8">>, <<"U+10CE9", "U+10CA9">>,
      <<"U+10CEA", "U+10CAA">>, <<"U+10CEB", "U+10CAB">>,
      <<"U+10CEC", "U+10CAC">>, <<"U+10CED", "U+10CAD">>,
      <<"U+10CEE", "U+10CAE">>, <<"U+10CEF", "U+10CAF">>,
      <<"U+10CF0", "U+10CB0">>, <<"U+10CF1", "U+10CB1">>,
      <<"U+10CF2", "U+10CB2">>, <<"U+118C0", "U+118A0">>,
      <<"U+118C1", "U+118A1">>, <<"U+118C2", "U+118A2">>,
      <<"U+118C3", "U+118A3">>, <<"U+118C4", "U+118A4">>,
      <<"U+118C5", "U+118A5">>, <<"U+118C6", "U+118A6">>,
      <<"U+118C7", "U+118A7">>, <<"U+118C8", "U+118A8">>,
      <<"U+118C9", "U+118A9">>, <<"U+118CA", "U+118AA">>,
      <<"U+118CB", "U+118AB">>, <<"U+118CC", "U+118AC">>,
      <<"U+118CD", "U+118AD">>, <<"U+118CE", "U+118AE">>,
      <<"U+118CF", "U+118AF">>, <<"U+118D0", "U+118B0">>,
      <<"U+118D1", "U+118B1">>, <<"U+118D2", "U+118B2">>,
      <<"U+118D3", "U+118B3">>, <<"U+118D4", "U+118B4">>,
      <<"U+118D5", "U+118B5">>, <<"U+118D6", "U+118B6">>,
      <<"U+118D7", "U+118B7">>, <<"U+118D8", "U+118B8">>,
      <<"U+118D9", "U+118B9">>, <<"U+118DA", "U+118BA">>,
      <<"U+118DB", "U+118BB">>, <<"U+118DC", "U+118BC">>,
      <<"U+118DD", "U+118BD">>, <<"U+118DE", "U+118BE">>,
      <<"U+118DF", "U+118BF">>, <<"U+16E60", "U+16E40">>,
      <<"U+16E61", "U+16E41">>, <<"U+16E62", "U+16E42">>,
      <<"U+16E63", "U+16E43">>, <<"U+16E64", "U+16E44">>,
      <<"U+16E65", "U+16E45">>, <<"U+16E66", "U+16E46">>,
      <<"U+16E67", "U+16E47">>, <<"U+16E68", "U+16E48">>,
      <<"U+16E69", "U+16E49">>, <<"U+16E6A", "U+16E4A">>,
      <<"U+16E6B", "U+16E4B">>, <<"U+16E6C", "U+16E4C">>,
      <<"U+16E6D", "U+16E4D">>, <<"U+16E6E", "U+16E4E">>,
      <<"U+16E6F", "U+16E4F">>, <<"U+16E70", "U+16E50">>,
      <<"U+16E71", "U+16E51">>, <<"U+16E72", "U+16E52">>,
      <<"U+16E73", "U+16E53">>, <<"U+16E74", "U+16E54">>,
      <<"U+16E75", "U+16E55">>, <<"U+16E76", "U+16E56">>,
      <<"U+16E77", "U+16E57">>, <<"U+16E78", "U+16E58">>,
      <<"U+16E79", "U+16E59">>, <<"U+16E7A", "U+16E5A">>,
      <<"U+16E7B", "U+16E5B">>, <<"U+16E7C", "U+16E5C">>,
      <<"U+16E7D", "U+16E5D">>, <<"U+16E7E", "U+16E5E">>,
      <<"U+16E7F", "U+16E5F">>, <<"U+1E922", "U+1E900">>,
      <<"U+1E923", "U+1E901">>, <<"U+1E924", "U+1E902">>,
      <<"U+1E925", "U+1E903">>, <<"U+1E926", "U+1E904">>,
      <<"U+1E927", "U+1E905">>, <<"U+1E928", "U+1E906">>,
      <<"U+1E929", "U+1E907">>, <<"U+1E92A", "U+1E908">>,
      <<"U+1E92B", "U+1E909">>, <<"U+1E92C", "U+1E90A">>,
      <<"U+1E92D", "U+1E90B">>, <<"U+1E92E", "U+1E90C">>,
      <<"U+1E92F", "U+1E90D">>, <<"U+1E930", "U+1E90E">>,
      <<"U+1E931", "U+1E90F">>, <<"U+1E932", "U+1E910">>,
      <<"U+1E933", "U+1E911">>, <<"U+1E934", "U+1E912">>,
      <<"U+1E935", "U+1E913">>, <<"U+1E936", "U+1E914">>,
      <<"U+1E937", "U+1E915">>, <<"U+1E938", "U+1E916">>,
      <<"U+1E939", "U+1E917">>, <<"U+1E93A", "U+1E918">>,
      <<"U+1E93B", "U+1E919">>, <<"U+1E93C", "U+1E91A">>,
      <<"U+1E93D", "U+1E91B">>, <<"U+1E93E", "U+1E91C">>,
      <<"U+1E93F", "U+1E91D">>, <<"U+1E940", "U+1E91E">>,
      <<"U+1E941", "U+1E91F">>, <<"U+1E942", "U+1E920">>,
      <<"U+1E943", "U+1E921">>>>

\* str.upper() of the characters whose upper case is several characters
SpecialUpper ==
    <<<<"U+00DF", <<"S", "S">>>>, <<"U+0149", <<"U+02BC", "N">>>>,
      <<"U+01F0", <<"J", "U+030C">>>>,
      <<"U+0390", <<"U+0399", "U+0308", "U+0301">>>>,
      <<"U+03B0", <<"U+03A5", "U+0308", "U+0301">>>>,
      <<"U+0587", <<"U+0535", "U+0552">>>>, <<"U+1E96", <<"H", "U+0331">>>>,
      <<"U+1E97", <<"T", "U+0308">>>>, <<"U+1E98", <<"W", "U+030A">>>>,
      <<"U+1E99", <<"Y", "U+030A">>>>, <<"U+1E9A", <<"A", "U+02BE">>>>,
      <<"U+1F50", <<"U+03A5", "U+0313">>>>,
      <<"U+1F52", <<"U+03A5", "U+0313", "U+0300">>>>,
      <<"U+1F54", <<"U+03A5", "U+0313", "U+0301">>>>,
      <<"U+1F56", <<"U+03A5", "U+0313", "U+0342">>>>,
      <<"U+1F80", <<"U+1F08", "U+0399">>>>,
      <<"U+1F81", <<"U+1F09", "U+0399">>>>,
      <<"U+1F82", <<"U+1F0A", "U+0399">>>>,
      <<"U+1F83", <<"U+1F0B", "U+0399">>>>,
      <<"U+1F84", <<"U+1F0C", "U+0399">>>>,
      <<"U+1F85", <<"U+1F0D", "U+0399">>>>,
      <<"U+1F86", <<"U+1F0E", "U+0399">>>>,
      <<"U+1F87", <<"U+1F0F", "U+0399">>>>,
      <<"U+1F88", <<"U+1F08", "U+0399">>>>,
      <<"U+1F89", <<"U+1F09", "U+0399">>>>,
      <<"U+1F8A", <<"U+1F0A", "U+0399">>>>,
      <<"U+1F8B", <<"U+1F0B", "U+0399">>>>,
      <<"U+1F8C", <<"U+1F0C", "U+0399">>>>,
      <<"U+1F8D", <<"U+1F0D", "U+0399">>>>,
      <<"U+1F8E", <<"U+1F0E", "U+0399">>>>,
      <<"U+1F8F", <<"U+1F0F", "U+0399">>>>,
      <<"U+1F90", <<"U+1F28", "U+0399">>>>,
      <<"U+1F91", <<"U+1F29", "U+0399">>>>,
      <<"U+1F92", <<"U+1F2A", "U+0399">>>>,
      <<"U+1F93", <<"U+1F2B", "U+0399">>>>,
      <<"U+1F94", <<"U+1F2C", "U+0399">>>>,
      <<"U+1F95", <<"U+1F2D", "U+0399">>>>,
      <<"U+1F96", <<"U+1F2E", "U+0399">>>>,
      <<"U+1F97", <<"U+1F2F", "U+0399">>>>,
      <<"U+1F98", <<"U+1F28", "U+0399">>>>,
      <<"U+1F99", <<"U+1F29", "U+0399">>>>,
      <<"U+1F9A", <<"U+1F2A", "U+0399">>>>,
      <<"U+1F9B", <<"U+1F2B", "U+0399">>>>,
      <<"U+1F9C", <<"U+1F2C", "U+0399">>>>,
      <<"U+1F9D", <<"U+1F2D", "U+0399">>>>,
      <<"U+1F9E", <<"U+1F2E", "U+0399">>>>,
      <<"U+1F9F", <<"U+1F2F", "U+0399">>>>,
      <<"U+1FA0", <<"U+1F68", "U+0399">>>>,
      <<"U+1FA1", <<"U+1F69", "U+0399">>>>,
      <<"U+1FA2", <<"U+1F6A", "U+0399">>>>,
      <<"U+1FA3", <<"U+1F6B", "U+0399">>>>,
      <<"U+1FA4", <<"U+1F6C", "U+0399">>>>,
      <<"U+1FA5", <<"U+1F6D", "U+0399">>>>,
      <<"U+1FA6", <<"U+1F6E", "U+0399">>>>,
      <<"U+1FA7", <<"U+1F6F", "U+0399">>>>,
      <<"U+1FA8", <<"U+1F68", "U+0399">>>>,
      <<"U+1FA9", <<"U+1F69", "U+0399">>>>,
      <<"U+1FAA", <<"U+1F6A", "U+0399">>>>,
      <<"U+1FAB", <<"U+1F6B", "U+0399">>>>,
      <<"U+1FAC", <<"U+1F6C", "U+0399">>>>,
      <<"U+1FAD", <<"U+1F6D", "U+0399">>>>,
      <<"U+1FAE", <<"U+1F6E", "U+0399">>>>,
      <<"U+1FAF", <<"U+1F6F", "U+0399">>>>,
      <<"U+1FB2", <<"U+1FBA", "U+0399">>>>,
      <<"U+1FB3", <<"U+0391", "U+0399">>>>,
      <<"U+1FB4", <<"U+0386", "U+0399">>>>,
      <<"U+1FB6", <<"U+0391", "U+0342">>>>,
      <<"U+1FB7", <<"U+0391", "U+0342", "U+0399">>>>,
      <<"U+1FBC", <<"U+0391", "U+0399">>>>,
      <<"U+1FC2", <<"U+1FCA", "U+0399">>>>,
      <<"U+1FC3", <<"U+0397", "U+0399">>>>,
      <<"U+1FC4", <<"U+0389", "U+0399">>>>,
      <<"U+1FC6", <<"U+0397", "U+0342">>>>,
      <<"U+1FC7", <<"U+0397", "U+0342", "U+0399">>>>,
      <<"U+1FCC", <<"U+0397", "U+0399">>>>,
      <<"U+1FD2", <<"U+0399", "U+0308", "U+0300">>>>,
      <<"U+1FD3", <<"U+0399", "U+0308", "U+0301">>>>,
      <<"U+1FD6", <<"U+0399", "U+0342">>>>,
      <<"U+1FD7", <<"U+0399", "U+0308", "U+0342">>>>,
      <<"U+1FE2", <<"U+03A5", "U+0308", "U+0300">>>>,
      <<"U+1FE3", <<"U+03A5", "U+0308", "U+0301">>>>,
      <<"U+1FE4", <<"U+03A1", "U+0313">>>>,
      <<"U+1FE6", <<"U+03A5", "U+0342">>>>,
      <<"U+1FE7", <<"U+03A5", "U+0308", "U+0342">>>>,
      <<"U+1FF2", <<"U+1FFA", "U+0399">>>>,
      <<"U+1FF3", <<"U+03A9", "U+0399">>>>,
      <<"U+1FF4", <<"U+038F", "U+0399">>>>,
      <<"U+1FF6", <<"U+03A9", "U+0342">>>>,
      <<"U+1FF7", <<"U+03A9", "U+0342", "U+0399">>>>,
      <<"U+1FFC", <<"U+03A9", "U+0399">>>>, <<"U+FB00", <<"F", "F">>>>,
      <<"U+FB01", <<"F", "I">>>>, <<"U+FB02", <<"F", "L">>>>,
      <<"U+FB03", <<"F", "F", "I">>>>, <<"U+FB04", <<"F", "F", "L">>>>,
      <<"U+FB05", <<"S", "T">>>>, <<"U+FB06", <<"S", "T">>>>,
      <<"U+FB13", <<"U+0544", "U+0546">>>>,
      <<"U+FB14", <<"U+0544", "U+0535">>>>,
      <<"U+FB15", <<"U+0544", "U+053B">>>>,
      <<"U+FB16", <<"U+054E", "U+0546">>>>,
      <<"U+FB17", <<"U+0544", "U+053D">>>>>>

\* str.upper() of one character, for every character it changes
ToUpper ==
    [c \in {SimpleUpper[k][1] : k \in 1..Len(SimpleUpper)}
           \cup {SpecialUpper[k][1] : k \in 1..Len(SpecialUpper)} |->
        IF \E k \in 1..Len(SpecialUpper) : SpecialUpper[k][1] = c
        THEN SpecialUpper[CHOOSE k \in 1..Len(SpecialUpper) : SpecialUpper[k][1] = c][2]
        ELSE <<SimpleUpper[CHOOSE k \in 1..Len(SimpleUpper) : SimpleUpper[k][1] = c][2]>>]

\* str.upper() of a text of characters: the upper case of each, in order
RECURSIVE upper(_)
upper(s) ==
    IF s = <<>> THEN <<>>
    ELSE IF Len(s) = 1
    THEN IF s[1] \in DOMAIN ToUpper THEN ToUpper[s[1]] ELSE s
    ELSE upper(SubSeq(s, 1, Len(s) \div 2))
         \o upper(SubSeq(s, Len(s) \div 2 + 1, Len(s)))

\* str.startswith(prefix)
startswith(s, prefix) ==
    Len(s) >= Len(prefix) /\ SubSeq(s, 1, Len(prefix)) = prefix

SELECT == <<"S", "E", "L", "E", "C", "T">>

\* Mutant of IsSelect: the query is upper-cased but not trimmed
IsSelect_NoStrip(query) == startswith(upper(query), SELECT)

\* query.strip().upper().startswith('SELECT')
IsSelect(query) == startswith(upper(strip(query)), SELECT)

\* PostgresReader.execute_query / MySQLReader.execute_query
\* raises: whether cursor.execute rejects the query; rows: what fetchall yields
execute_query(query, raises, rows, t, d) ==
    IF raises
    THEN [calls |-> <<Call("execute", query)>>, txn |-> t, db |-> d,
          out |-> <<Log("ERROR", "Query execution failed")>>, ret |-> <<>>]
    ELSE IF IsSelect(query)
    THEN [calls |-> <<Call("execute", query), Call("fetchall", <<>>)>>,
          txn |-> DriverExecute(t, query), db |-> d, out |-> <<>>, ret |-> rows]
    ELSE [calls |-> <<Call("execute", query), Call("commit", <<>>)>>,
          txn |-> <<>>, db |-> DriverCommit(d, DriverExecute(t, query)),
          out |-> <<>>, ret |-> <<>>]

\* the query of PostgresReader.list_tables
PG_LIST_TABLES ==
    <<"\n", " ", " ", " ", " ", " ", " ", " ", " ", " ", " ", " ", " ", "S",
      "E", "L", "E", "C", "T", " ", "t", "a", "b", "l", "e", "_", "n", "a",
      "m", "e", " ", "\n", " ", " ", " ", " ", " ", " ", " ", " ", " ", " ",
      " ", " ", "F", "R", "O", "M", " ", "i", "n", "f", "o", "r", "m", "a",
      "t", "i", "o", "n", "_", "s", "c", "h", "e", "m", "a", ".", "t", "a",
      "b", "l", "e", "s", " ", "\n", " ", " ", " ", " ", " ", " ", " ", " ",
      " ", " ", " ", " ", "W", "H", "E", "R", "E", " ", "t", "a", "b", "l",
      "e", "_", "s", "c", "h", "e", "m", "a", " ", "=", " ", "'", "p", "u",
      "b", "l", "i", "c", "'", " ", "A", "N", "D", " ", "t", "a", "b", "l",
      "e", "_", "t", "y", "p", "e", " ", "=", " ", "'", "B", "A", "S", "E",
      " ", "T", "A", "B", "L", "E", "'", "\n", " ", " ", " ", " ", " ", " ",
      " ", " ", " ", " ", " ", " ", "O", "R", "D", "E", "R", " ", "B", "Y",
      " ", "t", "a", "b", "l", "e", "_", "n", "a", "m", "e", ";", "\n", " ",
      " ", " ", " ", " ", " ", " ", " ">>

\* the query of MySQLReader.list_tables
MYSQL_LIST_TABLES == <<"S", "H", "O", "W", " ", "T", "A", "B", "L", "E", "S", ";">>

\* the query of PostgresReader.describe_table
PG_DESCRIBE(table_name) ==
    <<"\n", " ", " ", " ", " ", " ", " ", " ", " ", " ", " ", " ", " ", "S",
      "E", "L", "E", "C", "T", " ", "\n", " ", " ", " ", " ", " ", " ", " ",
      " ", " ", " ", " ", " ", " ", " ", " ", " ", "c", "o", "l", "u", "m",
      "n", "_", "n", "a", "m", "e", ",", "\n", " ", " ", " ", " ", " ", " ",
      " ", " ", " ", " ", " ", " ", " ", " ", " ", " ", "d", "a", "t", "a",
      "_", "t", "y", "p", "e", ",", "\n", " ", " ", " ", " ", " ", " ", " ",
      " ", " ", " ", " ", " ", " ", " ", " ", " ", "c", "h", "a", "r", "a",
      "c", "t", "e", "r", "_", "m", "a", "x", "i", "m", "u", "m", "_", "l",
      "e", "n", "g", "t", "h", ",", "\n", " ", " ", " ", " ", " ", " ", " ",
      " ", " ", " ", " ", " ", " ", " ", " ", " ", "i", "s", "_", "n", "u",
      "l", "l", "a", "b", "l", "e", ",", "\n", " ", " ", " ", " ", " ", " ",
      " ", " ", " ", " ", " ", " ", " ", " ", " ", " ", "c", "o", "l", "u",
      "m", "n", "_", "d", "e", "f", "a", "u", "l", "t", "\n", " ", " ", " ",
      " ", " ", " ", " ", " ", " ", " ", " ", " ", "F", "R", "O", "M", " ",
      "i", "n", "f", "o", "r", "m", "a", "t", "i", "o", "n", "_", "s", "c",
      "h", "e", "m", "a", ".", "c", "o", "l", "u", "m", "n", "s", "\n", " ",
      " ", " ", " ", " ", " ", " ", " ", " ", " ", " ", " ", "W", "H", "E",
      "R", "E", " ", "t", "a", "b", "l", "e", "_", "n", "a", "m", "e", " ",
      "=", " ", "'">>
    \o table_name \o
    <<"'", "\n", " ", " ", " ", " ", " ", " ", " ", " ", " ", " ", " ", " ",
      "O", "R", "D", "E", "R", " ", "B", "Y", " ", "o", "r", "d", "i", "n",
      "a", "l", "_", "p", "o", "s", "i", "t", "i", "o", "n", ";", "\n", " ",
      " ", " ", " ", " ", " ", " ", " ">>

\* the query of MySQLReader.describe_table
MYSQL_DESCRIBE(table_name) ==
    <<"D", "E", "S", "C", "R", "I", "B", "E", " ">> \o table_name \o <<";">>

ListTablesQuery(type) ==
    IF type = "postgres" THEN PG_LIST_TABLES ELSE MYSQL_LIST_TABLES

DescribeQuery(type, table_name) ==
    IF type = "postgres" THEN PG_DESCRIBE(table_name) ELSE MYSQL_DESCRIBE(table_name)

\* the column PostgresReader.list_tables reads
TABLE_NAME == <<"t", "a", "b", "l", "e", "_", "n", "a", "m", "e">>

\* row[key] finds the key
HasKey(row, key) == \E i \in 1..Len(row) : row[i].key = key

\* list_tables: the key under which the names are read
\* postgres: 'table_name'; mysql: list(results[0].keys())[0]
NameKey(type, rows) == IF type = "postgres" THEN TABLE_NAME ELSE keys(rows[1])[1]

\* list_tables raises instead of returning: KeyError when a row lacks the
\* key, IndexError when the first row of a MySQLReader result has no key
TableNamesRaise(type, rows) ==
    /\ rows # <<>>
    /\ \/ type # "postgres" /\ rows[1] = <<>>
       \/ \E i \in 1..Len(rows) : ~HasKey(rows[i], NameKey(type, rows))

\* list_tables: the names drawn from the rows execute_query returned
\* postgres: [row['table_name'] for row in results]
\* mysql: if results: [row[key] for row in results], else []
TableNames(type, rows) ==
    IF rows = <<>> THEN <<>>
    ELSE [i \in 1..Len(rows) |-> str_get(rows[i], NameKey(type, rows))]

-----------------------------------------------------------------------------
(* read_database.print_results                                             *)

Max(a, b) == IF a >= b THEN a ELSE b

RECURSIVE spaces(_)
spaces(n) == IF n <= 0 THEN <<>> ELSE <<" ">> \o spaces(n - 1)

RECURSIVE dashes(_)
dashes(n) == IF n <= 0 THEN <<>> ELSE <<"-">> \o dashes(n - 1)

\* str.ljust(width)
ljust(s, width) == s \o spaces(width - Len(s))

col_width_FirstRowOnly(rows, h, n) ==
    IF n = 0 THEN Len(h) ELSE Max(Len(h), Len(str_get(rows[1], h)))

\* col_widths[h] after the loop over the first `n` rows
RECURSIVE col_width(_, _, _)
col_width(rows, h, n) ==
    IF n = 0 THEN Len(h)
    ELSE Max(col_width(rows, h, n - 1), Len(str_get(rows[n], h)))

SEP == <<" ", "|", " ">>

header_line(rows) ==
    LET headers == keys(rows[1])
    IN join(SEP, [j \in 1..Len(headers) |->
                    ljust(headers[j], col_width(rows, headers[j], Len(rows)))])

row_line(rows, row) ==
    LET headers == keys(rows[1])
    IN join(SEP, [j \in 1..Len(headers) |->
                    ljust(str_get(row, headers[j]),
                          col_width(rows, headers[j], Len(rows)))])

DigitChar(d) == <<"0", "1", "2", "3", "4", "5", "6", "7", "8", "9">>[d + 1]

\* str(n) for n >= 0, as in f"{len(results)}"
RECURSIVE str_int(_)
str_int(n) ==
    IF n < 10 THEN <<DigitChar(n)>>
    ELSE str_int(n \div 10) \o <<DigitChar(n % 10)>>

\* '\\u{0:04x}'.format(n)
hex4(n) ==
    <<"\\", "u", LowerHex[((n \div 4096) % 16) + 1], LowerHex[((n \div 256) % 16) + 1],
      LowerHex[((n \div 16) % 16) + 1], LowerHex[(n % 16) + 1]>>

\* json.dumps of one character of a string (ensure_ascii is on): a short
\* escape, the character itself from ' ' to '~', \uXXXX for any other, as
\* a surrogate pair above U+FFFF
json_char(c) ==
    LET n == ord(c)
    IN CASE n = 34 -> <<"\\", "\"">>
         [] n = 92 -> <<"\\", "\\">>
         [] n = 10 -> <<"\\", "n">>
         [] n = 13 -> <<"\\", "r">>
         [] n = 9 -> <<"\\", "t">>
         [] n = 12 -> <<"\\", "f">>
         [] n = 8 -> <<"\\", "b">>
         [] n \in 32..126 /\ n \notin {34, 92} -> <<Ascii[n - 31]>>
         [] (n < 32 \/ n > 126) /\ n \notin {8, 9, 10, 12, 13} /\ n < 65536 -> hex4(n)
         [] n >= 65536 ->
               hex4(55296 + ((n - 65536) \div 1024)) \o hex4(56320 + ((n - 65536) % 1024))

\* json.dumps of a string, between the quotes
RECURSIVE json_string(_)
json_string(s) ==
    IF s = <<>> THEN <<>> ELSE json_char(Head(s)) \o json_string(Tail(s))

\* '\n' + indent * level, the line break json.dumps writes at nesting `level`
newline_indent(level) == <<"\n">> \o spaces(2 * level)

\* json.dumps(value, indent=2, default=str) of one value at nesting `level`;
\* v.text is str(value).  A list, a tuple and a dict are written element by
\* element; any other type than these, str, int, float, bool and None goes
\* through default=str and is written as the string str(value).
RECURSIVE json_value(_, _)
RECURSIVE json_member(_, _)
RECURSIVE json_object(_, _)
RECURSIVE json_array(_, _)
json_value(v, level) ==
    CASE v.kind = "str" -> <<"\"">> \o json_string(v.text) \o <<"\"">>
      [] v.kind = "int" -> v.text
      [] v.kind = "float" ->
            CASE v.text = <<"n", "a", "n">> -> <<"N", "a", "N">>
              [] v.text = <<"i", "n", "f">> -> <<"I", "n", "f", "i", "n", "i", "t", "y">>
              [] v.text = <<"-", "i", "n", "f">> ->
                    <<"-", "I", "n", "f", "i", "n", "i", "t", "y">>
              [] OTHER -> v.text
      [] v.kind = "bool" ->
            IF v.text = <<"T", "r", "u", "e">> THEN <<"t", "r", "u", "e">>
            ELSE <<"f", "a", "l", "s", "e">>
      [] v.kind = "NoneType" -> <<"n", "u", "l", "l">>
      [] v.kind \in {"list", "tuple"} -> json_array(v.items, level)
      [] v.kind = "dict" -> json_object(v.items, level)
      [] OTHER -> <<"\"">> \o json_string(v.text) \o <<"\"">>

\* one key of a dict and its value
json_member(p, level) ==
    <<"\"">> \o json_string(p.key) \o <<"\"", ":", " ">> \o json_value(p.value, level)

\* a dict whose opening brace stands at nesting `level`
json_object(row, level) ==
    IF row = <<>> THEN <<"{", "}">>
    ELSE <<"{">> \o newline_indent(level + 1)
         \o join(<<",">> \o newline_indent(level + 1),
                 [i \in 1..Len(row) |-> json_member(row[i], level + 1)])
         \o newline_indent(level) \o <<"}">>

\* a list or tuple whose opening bracket stands at nesting `level`
json_array(items, level) ==
    IF items = <<>> THEN <<"[", "]">>
    ELSE <<"[">> \o newline_indent(level + 1)
         \o join(<<",">> \o newline_indent(level + 1),
                 [i \in 1..Len(items) |-> json_value(items[i], level + 1)])
         \o newline_indent(level) \o <<"]">>

\* json.dumps(results, indent=2, default=str): a list of dicts
json_dumps(rows) ==
    IF rows = <<>> THEN <<"[", "]">>
    ELSE <<"[">> \o newline_indent(1)
         \o join(<<",">> \o newline_indent(1),
                 [i \in 1..Len(rows) |-> json_object(rows[i], 1)])
         \o newline_indent(0) \o <<"]">>

\* the end of the count line: f"\n{len(results)} row(s) returned\n"
ROWS_RETURNED ==
    <<" ", "r", "o", "w", "(", "s", ")", " ", "r", "e", "t", "u", "r", "n", "e", "d", "\n">>

\* print_results(results, format_type): the lines it writes
print_results(rows, format_type) ==
    IF rows = <<>> THEN <<Log("WARN", "No results returned")>>
    ELSE IF format_type = "json" THEN <<Line("PRINT", json_dumps(rows))>>
    ELSE <<Line("PRINT", <<"\n">> \o header_line(rows)),
           Line("PRINT", dashes(Len(header_line(rows))))>>
         \o [i \in 1..Len(rows) |-> Line("PRINT", row_line(rows, rows[i]))]
         \o <<Line("PRINT", <<"\n">> \o str_int(Len(rows)) \o ROWS_RETURNED)>>

-----------------------------------------------------------------------------
(* Inputs of read_database.py                                              *)

MaxRows == 2         \* most rows of a result list

RECURSIVE ListsUpTo(_, _)
ListsUpTo(S, n) ==
    IF n = 0 THEN {<<>>}
    ELSE LET shorter == ListsUpTo(S, n - 1)
         IN shorter \cup {Append(l, x) : l \in shorter, x \in S}

ID == <<"i", "d">>
NAME == <<"n", "a", "m", "e">>

\* rows of a query result, each value with its str(); the second holds a
\* float and a string with a quote, a line break, a no-break space and an
\* accented letter, the fourth a bool and lacks a key, the fifth orders the
\* keys the other way round, the sixth holds a list and a dict
RowSet ==
    { <<Pair(ID, Value("int", <<"1">>)), Pair(NAME, Value("str", <<"a", "n", "n">>))>>,
      <<Pair(ID, Value("float", <<"2", ".", "5">>)),
        Pair(NAME, Value("str", <<"b", "\"", "\n", "U+00A0", "U+00E9">>))>>,
      <<Pair(ID, Value("int", <<"1", "0", "0">>)),
        Pair(NAME, Value("NoneType", <<"N", "o", "n", "e">>))>>,
      <<Pair(ID, Value("bool", <<"T", "r", "u", "e">>))>>,
      <<Pair(NAME, Value("str", <<"a", "l", "b", "e", "r", "t">>)),
        Pair(ID, Value("datetime", <<"2", "0", "2", "4">>))>>,
      <<Pair(ID, Container("list", <<"[", "1", ",", " ", "'", "b", "'", "]">>,
                           <<Value("int", <<"1">>), Value("str", <<"b">>)>>)),
        Pair(NAME, Container("dict", <<"{", "'", "x", "'", ":", " ", "N", "o", "n", "e", ",", " ", "'", "y", "'", ":", " ", "(", ")", "}">>,
                             <<Pair(<<"x">>, Value("NoneType", <<"N", "o", "n", "e">>)),
                               Pair(<<"y">>, Container("tuple", <<"(", ")">>, <<>>))>>))>> }

ResultLists == ListsUpTo(RowSet, MaxRows)

\* rows the driver yields for the list_tables query
TableRows(type) ==
    LET key == IF type = "postgres"
               THEN <<"t", "a", "b", "l", "e", "_", "n", "a", "m", "e">>
               ELSE <<"T", "a", "b", "l", "e", "s", "_", "i", "n", "_", "d", "b">>
    IN ListsUpTo({<<Pair(key, Value("str", <<"t">>))>>,
                  <<Pair(key, Value("str", <<"u", "s">>))>>}, MaxRows)

\* rows the driver yields for the describe_table query: the five columns
\* PostgresReader selects, the six columns of DESCRIBE
PG_COLUMNS ==
    { <<Pair(<<"c", "o", "l", "u", "m", "n", "_", "n", "a", "m", "e">>, Value("str", <<"i", "d">>)),
        Pair(<<"d", "a", "t", "a", "_", "t", "y", "p", "e">>, Value("str", <<"i", "n", "t", "e", "g", "e", "r">>)),
        Pair(<<"c", "h", "a", "r", "a", "c", "t", "e", "r", "_", "m", "a", "x", "i", "m", "u", "m", "_", "l", "e", "n", "g", "t", "h">>, Value("NoneType", <<"N", "o", "n", "e">>)),
        Pair(<<"i", "s", "_", "n", "u", "l", "l", "a", "b", "l", "e">>, Value("str", <<"N", "O">>)),
        Pair(<<"c", "o", "l", "u", "m", "n", "_", "d", "e", "f", "a", "u", "l", "t">>, Value("NoneType", <<"N", "o", "n", "e">>))>>,
      <<Pair(<<"c", "o", "l", "u", "m", "n", "_", "n", "a", "m", "e">>, Value("str", <<"n", "a", "m", "e">>)),
        Pair(<<"d", "a", "t", "a", "_", "t", "y", "p", "e">>, Value("str", <<"c", "h", "a", "r", "a", "c", "t", "e", "r", " ", "v", "a", "r", "y", "i", "n", "g">>)),
        Pair(<<"c", "h", "a", "r", "a", "c", "t", "e", "r", "_", "m", "a", "x", "i", "m", "u", "m", "_", "l", "e", "n", "g", "t", "h">>, Value("int", <<"1", "0", "0">>)),
        Pair(<<"i", "s", "_", "n", "u", "l", "l", "a", "b", "l", "e">>, Value("str", <<"Y", "E", "S">>)),
        Pair(<<"c", "o", "l", "u", "m", "n", "_", "d", "e", "f", "a", "u", "l", "t">>, Value("NoneType", <<"N", "o", "n", "e">>))>> }

MYSQL_COLUMNS ==
    { <<Pair(<<"F", "i", "e", "l", "d">>, Value("str", <<"i", "d">>)),
        Pair(<<"T", "y", "p", "e">>, Value("str", <<"i", "n", "t">>)),
        Pair(<<"N", "u", "l", "l">>, Value("str", <<"N", "O">>)),
        Pair(<<"K", "e", "y">>, Value("str", <<"P", "R", "I">>)),
        Pair(<<"D", "e", "f", "a", "u", "l", "t">>, Value("NoneType", <<"N", "o", "n", "e">>)),
        Pair(<<"E", "x", "t", "r", "a">>, Value("str", <<"a", "u", "t", "o", "_", "i", "n", "c", "r", "e", "m", "e", "n", "t">>))>>,
      <<Pair(<<"F", "i", "e", "l", "d">>, Value("str", <<"n", "a", "m", "e">>)),
        Pair(<<"T", "y", "p", "e">>, Value("str", <<"v", "a", "r", "c", "h", "a", "r", "(", "1", "0", "0", ")">>)),
        Pair(<<"N", "u", "l", "l">>, Value("str", <<"Y", "E", "S">>)),
        Pair(<<"K", "e", "y">>, Value("str", <<>>)),
        Pair(<<"D", "e", "f", "a", "u", "l", "t">>, Value("NoneType", <<"N", "o", "n", "e">>)),
        Pair(<<"E", "x", "t", "r", "a">>, Value("str", <<>>))>> }

ColumnRows(type) ==
    ListsUpTo(IF type = "postgres" THEN PG_COLUMNS ELSE MYSQL_COLUMNS, MaxRows)

\* --query texts: optional leading whitespace, a first word, an optional rest
QueryTexts ==
    { pre \o head \o rest :
        pre \in {<<>>, <<" ">>, <<"\n", " ">>, <<"\r", "U+2003">>},
        head \in {SELECT, <<"s", "e", "l", "e", "c", "t">>, <<"S", "e", "l", "e", "c", "t">>,
                  <<"U+017F", "e", "l", "e", "c", "U+1E97">>,
                  <<"S", "E", "L", "E", "C">>, <<"S", "E", "T">>, <<"x">>},
        rest \in {<<>>, <<" ", "x">>} }

Formats == {"table", "json"}

\* the options of read_database.py other than the connection flags; <<>>
\* stands for an option that is absent (None) or empty
ReadOptions ==
    [type : Types, list_tables : {TRUE}, describe : {<<>>, <<"t">>}, query : {<<>>},
     format : Formats]
    \cup [type : Types, list_tables : {FALSE}, describe : {<<"t">>},
          query : {<<>>, SELECT}, format : Formats]
    \cup [type : Types, list_tables : {FALSE}, describe : {<<>>},
          query : QueryTexts \cup {<<>>}, format : Formats]

\* argparse namespaces of read_database.py
ReadArgs(e) ==
    UNION {{WithFlags(o, f) :
               f \in ConnectionFlags(e, ~o.list_tables /\ o.describe = <<>>
                                          /\ o.query = <<>>)} :
           o \in ReadOptions}

\* argparse namespaces of setup_database.py
SetupArgs(e) ==
    {WithFlags([type |-> t], f) : t \in Types, f \in ConnectionFlags(e, TRUE)}

-----------------------------------------------------------------------------
(* read_database.main                                                      *)

\* what one reader method call did: the query it sent, whether the driver
\* raised, the rows the driver held for it, the call's result r of
\* execute_query, the transaction before it and the method's return value
Outcome(method, query, raises, rows, t, r, value) ==
    [method |-> method, query |-> query, raises |-> raises, rows |-> rows,
     calls |-> r.calls, txnBefore |-> t, txnAfter |-> r.txn, ret |-> r.ret,
     value |-> value]

\* config = DEFAULT_CONFIG[args.type].copy() and the overrides;
\* reader = PostgresReader(config) / MySQLReader(config)
CreateReader ==
    /\ program = "read_database" /\ pc = "main"
    /\ config' = EffectiveConfig(DEFAULT_CONFIG, args)
    /\ IF driverAvailable
       THEN /\ pc' = "connect"
            /\ UNCHANGED <<out, exitCode>>
       ELSE /\ out' = Append(out, Log("ERROR", "driver is not installed"))
            /\ pc' = "exited"
            /\ exitCode' = 1
    /\ UNCHANGED <<program, args, driverAvailable, connection, cursor, pending,
                   calls, txn, db, CreatorVars, RenderVars, ReaderVars,
                   env, DEFAULT_CONFIG>>

\* reader.connect()
ReaderConnect ==
    /\ program = "read_database" /\ pc = "connect"
    /\ \E outcome \in ConnectOutcomes :
          LET r == connect(outcome)
          IN /\ connection' = r.connection
             /\ cursor' = r.cursor
             /\ calls' = calls \o r.calls
             /\ out' = out \o r.out
             /\ pending' = r.pending
             /\ pc' = IF r.pending = "none" THEN "operation" ELSE "finally"
    /\ UNCHANGED <<program, args, driverAvailable, exitCode, txn, db,
                   CreatorVars, RenderVars, ReaderVars, ConfigVars>>

\* if args.list_tables: tables = reader.list_tables(); print them; an
\* exception list_tables raises leaves main through the finally clause
ListTables ==
    /\ program = "read_database" /\ pc = "operation"
    /\ args.list_tables
    /\ \E raises \in BOOLEAN :
       \E rows \in (IF raises THEN {<<>>} ELSE TableRows(args.type)) :
          LET r == execute_query(ListTablesQuery(args.type), raises, rows, txn, db)
              failed == TableNamesRaise(args.type, r.ret)
              names == IF failed THEN None ELSE TableNames(args.type, r.ret)
          IN /\ calls' = calls \o r.calls
             /\ txn' = r.txn
             /\ db' = r.db
             /\ out' = out \o r.out
                       \o (IF failed THEN <<>>
                           ELSE IF names # <<>>
                           THEN <<Log("INFO", "Tables in database")>>
                                \o [i \in 1..Len(names) |->
                                      Line("PRINT", <<" ", " ", "-", " ">> \o names[i])]
                           ELSE <<Log("WARN", "No tables found in database")>>)
             /\ pending' = IF failed THEN "Exception" ELSE pending
             /\ qhist' = Append(qhist, Outcome("list_tables", ListTablesQuery(args.type),
                                               raises, rows, txn, r, names))
    /\ pc' = "finally"
    /\ UNCHANGED <<program, args, driverAvailable, connection, cursor,
                   exitCode, CreatorVars, RenderVars, ConfigVars>>

\* elif args.describe: results = reader.describe_table(args.describe)
Describe ==
    /\ program = "read_database" /\ pc = "operation"
    /\ ~args.list_tables /\ args.describe # <<>>
    /\ \E raises \in BOOLEAN :
       \E rows \in (IF raises THEN {<<>>} ELSE ColumnRows(args.type)) :
          LET r == execute_query(DescribeQuery(args.type, args.describe), raises,
                                 rows, txn, db)
          IN /\ calls' = calls \o r.calls
             /\ txn' = r.txn
             /\ db' = r.db
             /\ out' = out \o r.out
                       \o (IF r.ret # <<>>
                           THEN <<Log("INFO", "Structure of table")>>
                                \o print_results(r.ret, args.format)
                           ELSE <<Log("WARN", "Table not found")>>)
             /\ qhist' = Append(qhist, Outcome("describe_table",
                                               DescribeQuery(args.type, args.describe),
                                               raises, rows, txn, r, r.ret))
    /\ pc' = "finally"
    /\ UNCHANGED <<program, args, driverAvailable, connection, cursor, pending,
                   exitCode, CreatorVars, RenderVars, ConfigVars>>

\* elif args.query: results = reader.execute_query(args.query)
Query ==
    /\ program = "read_database" /\ pc = "operation"
    /\ ~args.list_tables /\ args.describe = <<>> /\ args.query # <<>>
    /\ \E raises \in BOOLEAN :
       \E rows \in (IF raises THEN {<<>>} ELSE ResultLists) :
          LET r == execute_query(args.query, raises, rows, txn, db)
          IN /\ calls' = calls \o r.calls
             /\ txn' = r.txn
             /\ db' = r.db
             /\ out' = out \o r.out
                       \o (IF r.ret # <<>> THEN print_results(r.ret, args.format)
                           ELSE IF ~IsSelect(args.query)
                                THEN <<Log("INFO", "Query executed successfully")>>
                                ELSE <<>>)
             /\ qhist' = Append(qhist, Outcome("execute_query", args.query, raises,
                                               rows, txn, r, r.ret))
    /\ pc' = "finally"
    /\ UNCHANGED <<program, args, driverAvailable, connection, cursor, pending,
                   exitCode, CreatorVars, RenderVars, ConfigVars>>

\* else: log_error("Please specify --query, --list-tables, or --describe")
ReaderNoOperation ==
    /\ program = "read_database" /\ pc = "operation"
    /\ ~args.list_tables /\ args.describe = <<>> /\ args.query = <<>>
    /\ out' = out \o <<Log("ERROR", "Please specify --query, --list-tables, or --describe"),
                       Log("PRINT", "help")>>
    /\ pc' = "finally"
    /\ UNCHANGED <<program, args, driverAvailable, connection, cursor, pending,
                   exitCode, calls, txn, db, CreatorVars, RenderVars, ReaderVars,
                   ConfigVars>>

\* finally: reader.close()
ReaderClose ==
    /\ program = "read_database" /\ pc = "finally"
    /\ calls' = calls \o <<Call("close()", <<>>)>> \o CloseCalls(cursor, connection)
    /\ out' = out \o CloseOut(connection)
    /\ cursor' = IF cursor = "open" THEN "closed" ELSE cursor
    /\ connection' = IF connection = "open" THEN "closed" ELSE connection
    /\ txn' = <<>>
    /\ pc' = "exited"
    /\ exitCode' = ExitCodeOf(pending)
    /\ UNCHANGED <<program, args, driverAvailable, pending, db, CreatorVars,
                   RenderVars, ReaderVars,
                   ConfigVars>>

-----------------------------------------------------------------------------
(* print_results applied to every result list                              *)

Render ==
    /\ program = "print_results" /\ pc = "render"
    /\ out' = print_results(results, format)
    /\ pc' = "rendered"
    /\ UNCHANGED <<program, args, driverAvailable, connection, cursor, pending,
                   exitCode, calls, txn, db, CreatorVars, RenderVars, ReaderVars,
                   ConfigVars>>

-----------------------------------------------------------------------------
(* setup_database.main                                                     *)

\* config = DEFAULT_CONFIG[args.type].copy(), the overrides and the banner
Configure ==
    /\ program = "setup_database" /\ pc = "main"
    /\ config' = EffectiveConfig(DEFAULT_CONFIG, args)
    /\ out' = out \o <<Log("INFO", "SQL Database Setup Script"),
                       Log("INFO", "=========================="),
                       Line("INFO", <<"Database Type: ", args.type>>),
                       Line("INFO", <<"Database Name: ", config'["db_name"]>>),
                       Line("INFO", <<"Database User: ", config'["db_user"]>>),
                       Log("INFO", "")>>
    /\ pc' = "configured"
    /\ UNCHANGED <<program, args, driverAvailable, connection, cursor, pending,
                   exitCode, calls, txn, db, CreatorVars, RenderVars, ReaderVars,
                   env, DEFAULT_CONFIG>>


\* what running a command can give: its return code, or no such executable
Results == {"0", "1", "FileNotFoundError"}

run_command_Unchecked(command, check, result) ==
    [calls |-> <<Call(command, <<result>>)>>,
     out |-> <<>>,
     pending |-> IF result = "FileNotFoundError" THEN "Exception" ELSE "none"]

\* run_command(command, check): subprocess.run raises CalledProcessError on
\* a non-zero return code when check is set; only that exception is caught
run_command(command, check, result) ==
    [calls |-> <<Call(command, <<result>>)>>,
     out |-> IF check /\ result \notin {"0", "FileNotFoundError"}
             THEN <<Line("ERROR", <<"Command failed: ", command>>),
                    Log("ERROR", "Error")>>
             ELSE <<>>,
     pending |-> IF result = "FileNotFoundError" THEN "Exception"
                 ELSE IF check /\ result # "0" THEN "SystemExit(1)"
                 ELSE "none"]

Product(type) == IF type = "postgres" THEN "PostgreSQL" ELSE "MySQL"
Package(type) == IF type = "postgres" THEN "postgresql postgresql-contrib" ELSE "mysql-server"
Service(type) == IF type = "postgres" THEN "postgresql" ELSE "mysql"
Client(type) == IF type = "postgres" THEN "psql" ELSE "mysql"
ClientCommand(type) == IF type = "postgres" THEN "sudo -u postgres psql" ELSE "sudo mysql"

\* the step after a command: the process ends when an exception is pending
SetupStep(r, next) ==
    /\ calls' = calls \o r.calls
    /\ pending' = r.pending
    /\ IF r.pending = "none"
       THEN /\ pc' = next
            /\ UNCHANGED exitCode
       ELSE /\ pc' = "exited"
            /\ exitCode' = ExitCodeOf(r.pending)

SetupVars == <<program, args, driverAvailable, connection, cursor, txn, db,
               CreatorVars, RenderVars, ReaderVars, ConfigVars>>

\* result = run_command(['which', client], check=False, capture_output=True)
PresenceCheck ==
    /\ program = "setup_database" /\ pc = "configured"
    /\ \E result \in Results :
          LET r == run_command("which " \o Client(args.type), FALSE, result)
          IN /\ SetupStep(r, IF result # "0" THEN "update" ELSE "start")
             /\ out' = out \o <<Line("INFO", <<"Setting up database", Product(args.type)>>)>>
                       \o r.out
                       \o (IF r.pending = "none" /\ result # "0"
                           THEN <<Line("WARN", <<"is not installed. Installing...",
                                                 Product(args.type)>>)>>
                           ELSE <<>>)
    /\ UNCHANGED SetupVars

\* run_command(['sudo', 'apt-get', 'update'])
AptUpdate ==
    /\ program = "setup_database" /\ pc = "update"
    /\ \E result \in Results :
          LET r == run_command("sudo apt-get update", TRUE, result)
          IN /\ SetupStep(r, "install")
             /\ out' = out \o r.out
    /\ UNCHANGED SetupVars

\* run_command(['sudo', 'apt-get', 'install', '-y', package])
AptInstall ==
    /\ program = "setup_database" /\ pc = "install"
    /\ \E result \in Results :
          LET r == run_command("sudo apt-get install -y " \o Package(args.type), TRUE,
                               result)
          IN /\ SetupStep(r, "start")
             /\ out' = out \o r.out
    /\ UNCHANGED SetupVars

\* run_command(['sudo', 'systemctl', 'start', service])
ServiceStart ==
    /\ program = "setup_database" /\ pc = "start"
    /\ \E result \in Results :
          LET r == run_command("sudo systemctl start " \o Service(args.type), TRUE,
                               result)
          IN /\ SetupStep(r, "enable")
             /\ out' = out \o <<Line("INFO", <<"Starting service", Product(args.type)>>)>>
                       \o r.out
    /\ UNCHANGED SetupVars

\* run_command(['sudo', 'systemctl', 'enable', service])
ServiceEnable ==
    /\ program = "setup_database" /\ pc = "enable"
    /\ \E result \in Results :
          LET r == run_command("sudo systemctl enable " \o Service(args.type), TRUE,
                               result)
          IN /\ SetupStep(r, "provision")
             /\ out' = out \o r.out
    /\ UNCHANGED SetupVars

\* process = subprocess.Popen(client); process.communicate(input=sql_commands);
\* then the rest of main
Provision ==
    /\ program = "setup_database" /\ pc = "provision"
    /\ \E result \in Results :
          /\ calls' = Append(calls, Call(ClientCommand(args.type), <<result>>))
          /\ pending' = IF result = "FileNotFoundError" THEN "Exception"
                        ELSE IF result # "0" THEN "SystemExit(1)"
                        ELSE "none"
          /\ out' = out
                    \o <<Line("INFO", <<"Creating database and user",
                                        config["db_name"], config["db_user"]>>)>>
                    \o (CASE result = "FileNotFoundError" -> <<>>
                          [] result = "0" ->
                               <<Line("INFO", <<"setup complete!", Product(args.type)>>),
                                 Line("INFO", <<"Connection string: ", Service(args.type),
                                                config["db_user"], config["db_password"],
                                                config["db_host"], config["db_port"],
                                                config["db_name"]>>),
                                 Log("INFO", ""),
                                 Log("INFO", "Setup completed successfully!")>>
                          [] OTHER -> <<Log("ERROR", "Failed to create database")>>)
          /\ exitCode' = ExitCodeOf(pending')
    /\ pc' = "exited"
    /\ UNCHANGED SetupVars

-----------------------------------------------------------------------------

Idle ==
    /\ connection = None
    /\ cursor = None
    /\ tables = <<>>
    /\ ti = 0
    /\ pending = "none"
    /\ exitCode = -1
    /\ calls = <<>>
    /\ txn = <<>>
    /\ db = <<>>
    /\ out = <<>>
    /\ hist = <<>>
    /\ qhist = <<>>

Init ==
    /\ env \in Environments
    /\ \/ program = "create_schema" /\ args \in CreateArgs(env)
       \/ program = "read_database" /\ args \in ReadArgs(env)
    /\ driverAvailable \in BOOLEAN
    /\ pc = "main"
    /\ results = <<>>
    /\ format = "table"
    /\ DEFAULT_CONFIG = ModuleConfig(env)
    /\ config = None
    /\ Idle

Next ==
    \/ GenerateExample
    \/ CreateCreator
    \/ Connect
    \/ SchemaMissing
    \/ SchemaUnreadable
    \/ RunSchema
    \/ StartExample
    \/ ExampleStep
    \/ NoOperation
    \/ Close
    \/ CreateReader
    \/ ReaderConnect
    \/ ListTables
    \/ Describe
    \/ Query
    \/ ReaderNoOperation
    \/ ReaderClose

Spec == Init /\ [][Next]_vars

InitRender ==
    /\ program = "print_results"
    /\ args = [type |-> "postgres"]
    /\ driverAvailable = TRUE
    /\ pc = "render"
    /\ results \in ResultLists
    /\ format \in Formats
    /\ env = NoEnvironment
    /\ DEFAULT_CONFIG = ModuleConfig(env)
    /\ config = None
    /\ Idle

NextRender == Render

SpecRender == InitRender /\ [][NextRender]_vars

\* setup_database.main
InitConfig ==
    /\ program = "setup_database"
    /\ env \in Environments
    /\ DEFAULT_CONFIG = ModuleConfig(env)
    /\ args \in SetupArgs(env)
    /\ config = None
    /\ driverAvailable = TRUE
    /\ pc = "main"
    /\ results = <<>>
    /\ format = "table"
    /\ Idle

NextConfig ==
    \/ Configure
    \/ PresenceCheck
    \/ AptUpdate
    \/ AptInstall
    \/ ServiceStart
    \/ ServiceEnable
    \/ Provision

SpecConfig == InitConfig /\ [][NextConfig]_vars

-----------------------------------------------------------------------------
(* Properties                                                              *)

Count(cs, op) == Len(SelectSeq(cs, LAMBDA c : c.op = op))

MinOf(S) == CHOOSE x \in S : \A y \in S : x <= y

\* the calls that attempt the first n statements, in order
Attempts(statements, n) == [j \in 1..n |-> Call("execute", statements[j])]

Batches == {hist[k] : k \in 1..Len(hist)}

\* C1: when the driver first raises at statement i of a batch, execute_sql
\* attempts exactly statements 1..i in order and none after it, then issues one
\* rollback and no commit, and returns False.
C1_StopAtFirstFailure ==
    \A b \in Batches :
        b.willRaise # {} =>
            LET i == MinOf(b.willRaise)
            IN /\ b.calls = Attempts(b.statements, i) \o <<Call("rollback", <<>>)>>
               /\ b.ret = FALSE

\* a batch that failed at a statement that is neither its first nor its last
C1_Witness ==
    \E b \in Batches :
        /\ b.willRaise # {}
        /\ MinOf(b.willRaise) > 1
        /\ MinOf(b.willRaise) < Len(b.statements)

\* C2: when no statement of the batch raises, execute_sql attempts every
\* statement in order, then issues exactly one commit, after the last
\* statement, and no rollback, and returns True.
C2_CommitOnce ==
    \A b \in Batches :
        b.willRaise = {} =>
            /\ b.calls = Attempts(b.statements, Len(b.statements))
                         \o <<Call("commit", <<>>)>>
            /\ b.ret = TRUE

\* a batch of several statements none of which raised
C2_Witness ==
    \E b \in Batches : b.willRaise = {} /\ Len(b.statements) >= 2

\* C3: a batch is all-or-nothing: after execute_sql returns False the database
\* is what it was before the call, after it returns True the database is what
\* it was followed by every statement of the batch, and nothing stays pending.
C3_AllOrNothing ==
    /\ \A b \in Batches :
          /\ b.ret = FALSE => b.dbAfter = b.dbBefore
          /\ b.ret = TRUE => b.dbAfter = b.dbBefore \o b.statements
          /\ b.txnAfter = <<>>
    /\ program = "create_schema" /\ hist # <<>> =>
          /\ db = hist[Len(hist)].dbAfter
          /\ txn = <<>>

\* a batch that failed after some of its statements were executed, on a
\* database an earlier batch had committed to
C3_Witness ==
    \E b \in Batches :
        /\ b.ret = FALSE
        /\ MinOf(b.willRaise) > 1
        /\ b.dbBefore # <<>>

\* the creator / reader object was constructed
ObjectExisted ==
    /\ driverAvailable
    /\ program = "create_schema" => ~args.generate_example

\* the position of the close() call in the log
ClosePos == CHOOSE k \in 1..Len(calls) : calls[k].op = "close()"

BothClosed == <<Call("cursor.close", <<>>), Call("connection.close", <<>>)>>

\* C4 as stated: on every exit path once the creator / reader object exists,
\* the cursor is closed and then the connection is closed, each exactly once,
\* and nothing is executed after the close.
C4_Original ==
    pc = "exited" /\ ObjectExisted =>
        /\ Count(calls, "close()") = 1
        /\ SubSeq(calls, ClosePos + 1, Len(calls)) = BothClosed

\* C4 amended: on every exit path once the creator / reader object exists,
\* close() runs exactly once and is the last thing done on the driver; it
\* closes what connect() opened: the cursor and then the connection, each
\* exactly once, when both were opened; the connection alone when it was
\* opened and creating the cursor failed; nothing when the connection
\* attempt failed.
C4_CloseOnExit ==
    pc = "exited" /\ ObjectExisted =>
        /\ Count(calls, "close()") = 1
        /\ SubSeq(calls, ClosePos + 1, Len(calls))
             = IF cursor = "closed" /\ connection = "closed" THEN BothClosed
               ELSE IF connection = "closed"
                    THEN <<Call("connection.close", <<>>)>>
                    ELSE <<>>
        /\ cursor # "open" /\ connection # "open"
        /\ Count(calls, "cursor") = 1 <=> connection = "closed"

\* main left by an exception raised during the operation, connection closed
C4_Witness ==
    /\ pc = "exited"
    /\ pending = "Exception"
    /\ connection = "closed" /\ cursor = "closed"

\* the fragments of a text, by position: the k-th lies between the (k-1)-th
\* and the k-th ';'
Cuts(sql) == {0, Len(sql) + 1} \cup {i \in 1..Len(sql) : sql[i] = ";"}

Kth(S, k) == CHOOSE x \in S : Cardinality({y \in S : y < x}) = k - 1

Fragment(sql, k) == SubSeq(sql, Kth(Cuts(sql), k) + 1, Kth(Cuts(sql), k + 1) - 1)

Inked(f) == {i \in 1..Len(f) : f[i] \notin Whitespace}

Trimmed(f) ==
    IF Inked(f) = {} THEN <<>>
    ELSE SubSeq(f, MinOf(Inked(f)), CHOOSE x \in Inked(f) : \A y \in Inked(f) : y <= x)

Derived(sql) ==
    SelectSeq([k \in 1..(Cardinality(Cuts(sql)) - 1) |-> Trimmed(Fragment(sql, k))],
              LAMBDA f : f # <<>>)

\* C5: the statements execute_sql derives from a text are its ';'-separated
\* fragments, each trimmed of surrounding whitespace, without those that are
\* empty after trimming, in their order; none is empty, and a trailing ';'
\* adds none.
C5_SplitTrimDrop ==
    \A b \in Batches :
        /\ b.statements = Derived(b.sql)
        /\ \A j \in 1..Len(b.statements) : b.statements[j] # <<>>
        /\ Statements(b.sql \o <<";">>) = b.statements

\* a text with a dropped fragment between two statements, one of them
\* trimmed
C5_Witness ==
    \E b \in Batches :
        LET n == Cardinality(Cuts(b.sql)) - 1
        IN /\ Len(b.statements) = 2
           /\ \E k \in 2..(n - 1) : Trimmed(Fragment(b.sql, k)) = <<>>
           /\ \E k \in 1..n : Trimmed(Fragment(b.sql, k)) \notin {<<>>, Fragment(b.sql, k)}

FailedBatches == {b \in Batches : b.willRaise # {}}

\* C6 as stated: the value execute_sql returns on failure identifies the
\* failing statement, so failures at different indexes return different values.
C6_Original ==
    \A a, b \in FailedBatches :
        MinOf(a.willRaise) # MinOf(b.willRaise) => a.ret # b.ret

\* C6 amended: when a statement fails execute_sql returns the bare value
\* False, the same for every failing index; the index is not returned and the
\* driver's error text is only logged, one ERROR line per failed batch.
C6_FailureIsFalse ==
    /\ \A b \in FailedBatches : b.ret = FALSE
    /\ \A b \in Batches : b.ret \in BOOLEAN /\ (b.ret = FALSE <=> b.willRaise # {})
    /\ program = "create_schema" =>
          Cardinality({k \in 1..Len(out) : out[k] = Log("ERROR", "Failed to execute SQL")})
            = Cardinality({k \in 1..Len(hist) : hist[k].willRaise # {}})

\* two batches of one run that failed at different indexes
C6_Witness ==
    \E a, b \in FailedBatches : MinOf(a.willRaise) # MinOf(b.willRaise)

\* C7: a script without statements is a no-op success: execute_sql executes
\* nothing, issues no rollback, leaves the database unchanged and returns True.
C7_EmptyScript ==
    \A b \in Batches :
        b.statements = <<>> =>
            /\ Count(b.calls, "execute") = 0
            /\ Count(b.calls, "rollback") = 0
            /\ b.dbAfter = b.dbBefore
            /\ b.ret = TRUE

\* a script of separators and whitespace only
C7_Witness ==
    \E b \in Batches :
        /\ b.statements = <<>>
        /\ \E i, j \in 1..Len(b.sql) : b.sql[i] = ";" /\ b.sql[j] = " "

IsExampleName(t) == t \in {<<"users">>, <<"posts">>, <<"comments">>}

RECURSIVE Committed(_)
Committed(h) ==
    IF h = <<>> THEN <<>>
    ELSE (IF Head(h).ret THEN Head(h).statements ELSE <<>>) \o Committed(Tail(h))

\* C8: in an --example run every known table name of the list gets its
\* batch attempted exactly once, in list order, whatever the earlier batches
\* returned; unknown names are skipped; the loop ends only after the last
\* name; the database holds exactly the batches that succeeded.
C8_SiblingBatches ==
    program = "create_schema" /\ tables # <<>> =>
        LET known == SelectSeq(SubSeq(tables, 1, ti - 1), IsExampleName)
        IN /\ Len(hist) = Len(known)
           /\ \A k \in 1..Len(hist) :
                 hist[k].sql = EXAMPLE_SCHEMAS[known[k][1]][args.type]
           /\ db = Committed(hist)
           /\ pc \in {"finally", "exited"} => ti = Len(tables) + 1

\* a run whose first batch failed midway and whose second batch committed
C8_Witness ==
    /\ pc = "exited" /\ Len(hist) = 2
    /\ hist[1].ret = FALSE /\ MinOf(hist[1].willRaise) > 1
    /\ hist[2].ret = TRUE
    /\ db = hist[2].statements

NeedsConnection == program = "create_schema" => ~args.generate_example

ConnectFailed == Count(calls, "connect") = 1 /\ cursor = None

DriverUntouched == \A k \in 1..Len(calls) : calls[k].op = "popen"

NothingRun == Count(calls, "execute") = 0 /\ Count(calls, "commit") = 0

OperationSucceeded ==
    /\ Count(calls, "cursor") = 1
    /\ \/ program = "create_schema" /\ hist # <<>> /\ \A b \in Batches : b.ret
       \/ /\ program = "read_database"
          /\ Count(calls, "execute") = 1
          /\ \A k \in 1..Len(out) : out[k].level # "ERROR"

\* C9 as stated: every run exits non-zero when the driver is missing or the
\* connection fails, having executed and committed nothing; a run whose
\* connection and operation succeed exits 0.
C9_Original ==
    pc = "exited" =>
        /\ ~driverAvailable \/ ConnectFailed => exitCode # 0 /\ NothingRun
        /\ OperationSucceeded => exitCode = 0

\* C9 amended: every run other than create_schema --generate-example exits
\* non-zero when the driver is missing or the connection fails, having
\* executed and committed nothing; --generate-example never uses the driver
\* and exits 0; a run whose connection and operation succeed exits 0.
C9_ExitCodes ==
    pc = "exited" =>
        /\ NeedsConnection /\ (~driverAvailable \/ ConnectFailed) =>
              exitCode # 0 /\ NothingRun
        /\ ~NeedsConnection => exitCode = 0 /\ DriverUntouched
        /\ OperationSucceeded => exitCode = 0

\* a read_database run whose connection attempt failed
C9_Witness ==
    /\ pc = "exited" /\ program = "read_database"
    /\ ConnectFailed /\ exitCode = 1

\* C10: print_results of an empty result list writes no table and a "no
\* results" notice in table format, and an empty JSON array in json format.
C10_EmptyRender ==
    pc = "rendered" /\ results = <<>> =>
        /\ format = "table" => out = <<Log("WARN", "No results returned")>>
        /\ format = "json" => out = <<Line("PRINT", <<"[", "]">>)>>

\* the reader method calls of the run
Queries == {qhist[k] : k \in 1..Len(qhist)}

\* C11: whenever the driver executes the statement of list_tables or
\* describe_table without error and holds a non-empty row set for it, the
\* method returns a non-empty list with one entry per row, for MySQLReader
\* as for PostgresReader.
C11_CatalogueRows ==
    \A q \in Queries :
        q.method \in {"list_tables", "describe_table"} /\ ~q.raises /\ q.rows # <<>> =>
            /\ q.value # <<>>
            /\ Len(q.value) = Len(q.rows)

\* the widest of a non-empty set of lengths
Widest(S) == CHOOSE w \in S : \A l \in S : w >= l

\* width of column j of the table of `rows`: its header and every cell
ColumnWidth(rows, j) ==
    LET h == keys(rows[1])[j]
    IN Widest({Len(h)} \cup {Len(str_get(rows[i], h)) : i \in 1..Len(rows)})

\* where column j starts in a line: the widths and gaps to its left
RECURSIVE ColumnStart(_, _)
ColumnStart(rows, j) ==
    IF j = 1 THEN 0
    ELSE ColumnStart(rows, j - 1) + ColumnWidth(rows, j - 1) + 3

LineLength(rows) ==
    LET last == Len(keys(rows[1]))
    IN ColumnStart(rows, last) + ColumnWidth(rows, last)

\* `line` shows `text` in column j, left-justified and padded with spaces
Shows(rows, line, j, text) ==
    LET start == ColumnStart(rows, j)
    IN /\ SubSeq(line, start + 1, start + Len(text)) = text
       /\ \A k \in (start + Len(text) + 1)..(start + ColumnWidth(rows, j)) :
             line[k] = " "

\* C12: a non-empty result list rendered in table mode gives a header line,
\* a dash rule, one line per row in input order and a count line; every
\* column is as wide as the longest of its header and its cells, so the
\* header, the rule and every row line have one length, the sum of the
\* widths plus 3 per gap; the count line reports the number of rows.
C12_TableLayout ==
    pc = "rendered" /\ results # <<>> /\ format = "table" =>
        LET headers == keys(results[1])
            n == Len(results)
            total == LineLength(results)
        IN /\ Len(out) = n + 3
           /\ out[1].msg[1] = "\n"
           /\ Len(Tail(out[1].msg)) = total
           /\ \A j \in 1..Len(headers) :
                 Shows(results, Tail(out[1].msg), j, headers[j])
           /\ Len(out[2].msg) = total
           /\ \A k \in 1..total : out[2].msg[k] = "-"
           /\ \A i \in 1..n :
                 /\ Len(out[2 + i].msg) = total
                 /\ \A j \in 1..Len(headers) :
                       Shows(results, out[2 + i].msg, j, str_get(results[i], headers[j]))
           /\ out[n + 3].msg = <<"\n">> \o str_int(n) \o ROWS_RETURNED

\* a table of two rows and two columns in which the second row holds the
\* widest cell of the first column, wider than its header, and the header
\* line is padded
C12_Witness ==
    /\ pc = "rendered" /\ format = "table" /\ Len(results) = 2
    /\ Len(keys(results[1])) = 2
    /\ ColumnWidth(results, 1) = Len(str_get(results[2], keys(results[1])[1]))
    /\ ColumnWidth(results, 1) > Len(keys(results[1])[1])
    /\ ColumnWidth(results, 1) > Len(str_get(results[1], keys(results[1])[1]))
    /\ Len(out) = 5
    /\ Len(out[3].msg) = Len(out[4].msg)

\* ';'.join(statements)
Rejoined(statements) == join(<<";">>, statements)

\* C13: the statements split from a script, rejoined with ';' and split
\* again, are the statements split from the script.
C13_SplitIdempotent ==
    \A b \in Batches : Statements(Rejoined(b.statements)) = b.statements

\* a script of two statements that is not the rejoined text of its
\* statements: splitting trimmed or dropped something the first time
C13_Witness ==
    \E b \in Batches :
        /\ Len(b.statements) >= 2
        /\ Rejoined(b.statements) # b.sql
        /\ Len(Rejoined(b.statements)) < Len(b.sql)
        /\ Statements(Rejoined(b.statements)) = b.statements

\* the value the layering gives a key: the flag when `given` says the flag
\* counts, else the environment variable when set, else the default
Layered(key, given) ==
    IF given THEN args[Flag(key)]
    ELSE IF env[EnvVar(key)] # None THEN env[EnvVar(key)]
    ELSE Default(args.type, key)

\* C14: each of the five connection fields of the effective configuration
\* holds the flag's value whenever the flag is given, else the DB_*
\* environment variable if set, else the built-in default; building the
\* configuration leaves the module-level DEFAULT_CONFIG as it was.
C14_Layered ==
    pc # "main" /\ ~(program = "create_schema" /\ args.generate_example) =>
        /\ \A key \in ConfigKeys :
              config[key] = Layered(key, args[Flag(key)] # None)
        /\ DEFAULT_CONFIG = ModuleConfig(env)

ReturnedFailure == {b \in Batches : b.ret = FALSE}

\* C15: once execute_sql has returned failure, for --schema or for any
\* --example batch, create_schema.main carries no exception, goes on to close
\* the cursor and the connection and exits with code 0, the exit code of a
\* run whose batches all committed.
C15_FailureRecovered ==
    program = "create_schema" /\ hist # <<>> =>
        /\ pending = "none"
        /\ pc \in {"example", "finally", "exited"}
        /\ pc = "exited" =>
              /\ exitCode = 0
              /\ cursor = "closed" /\ connection = "closed"
              /\ SubSeq(calls, Len(calls) - 1, Len(calls)) = BothClosed

\* a finished run whose only batch was rolled back, and whose exit code is 0
C15_Witness ==
    /\ program = "create_schema" /\ pc = "exited"
    /\ Len(hist) = 1 /\ ReturnedFailure # {}
    /\ Count(calls, "rollback") = 1 /\ Count(calls, "commit") = 0
    /\ exitCode = 0 /\ connection = "closed"

\* the characters whose upper case gives each letter of the word: its two
\* cases; for S the long s, whose upper case is S; for T the t with
\* diaeresis (U+1E97), whose upper case is T followed by a combining mark
SelectLetters ==
    <<{"S", "s", "U+017F"}, {"E", "e"}, {"L", "l"}, {"E", "e"}, {"C", "c"},
      {"T", "t", "U+1E97"}>>

\* after leading whitespace the text begins with the word, in any case
BeginsWithSelect(query) ==
    \E k \in 0..(Len(query) - Len(SelectLetters)) :
        /\ \A i \in 1..k : query[i] \in Whitespace
        /\ \A i \in 1..Len(SelectLetters) : query[k + i] \in SelectLetters[i]

FailedQueries == {q \in Queries : q.raises}

\* C16: execute_query commits exactly when the driver executed the query
\* without error and the query, trimmed and upper-cased, does not start with
\* SELECT; it never rolls back; a failed query makes no driver call after the
\* execute, leaves the open transaction as it was until close, and returns
\* the empty list, as a successful query without rows does.
C16_CommitIffWrite ==
    /\ \A q \in Queries :
          /\ Count(q.calls, "commit")
               = IF ~q.raises /\ ~BeginsWithSelect(q.query) THEN 1 ELSE 0
          /\ Count(q.calls, "rollback") = 0
          /\ ~q.raises /\ BeginsWithSelect(q.query) => q.ret = q.rows
    /\ \A q \in FailedQueries :
          /\ q.calls = <<Call("execute", q.query)>>
          /\ q.txnAfter = q.txnBefore
          /\ q.ret = <<>>
    /\ program = "read_database" =>
          /\ Count(calls, "rollback") = 0
          /\ FailedQueries # {} /\ pc = "exited" =>
                /\ Count(calls, "commit") = 0
                /\ SubSeq(calls, Len(calls) - 3, Len(calls))
                     = <<Call("execute", qhist[Len(qhist)].query), Call("close()", <<>>)>>
                       \o BothClosed

\* a finished run whose --query, a statement other than SELECT, failed
C16_Witness ==
    /\ program = "read_database" /\ pc = "exited"
    /\ \E q \in FailedQueries :
          /\ q.method = "execute_query"
          /\ ~BeginsWithSelect(q.query)
          /\ q.ret = <<>>
    /\ Count(calls, "commit") = 0 /\ Count(calls, "rollback") = 0
    /\ connection = "closed"

\* the commands of setup_postgresql / setup_mysql in program order; the two
\* apt-get commands belong to it when the presence check did not return 0
SetupPlan(type, installs) ==
    <<"which " \o Client(type)>>
    \o (IF installs
        THEN <<"sudo apt-get update", "sudo apt-get install -y " \o Package(type)>>
        ELSE <<>>)
    \o <<"sudo systemctl start " \o Service(type),
         "sudo systemctl enable " \o Service(type),
         ClientCommand(type)>>

\* what the k-th command run gave
ResultOf(k) == calls[k].arg[1]

Completed == \E k \in 1..Len(out) : out[k] = Log("INFO", "Setup completed successfully!")

\* C17: the commands run are a prefix of the fixed order presence check,
\* update and install (only when the presence check fails), service start,
\* service enable, SQL client; a command runs only when every checked command
\* before it returned 0; when a checked command or the SQL client returns
\* non-zero the process exits with code 1 at once; and 'Setup completed
\* successfully!' is logged only when every step succeeded.
C17_StepOrder ==
    program = "setup_database" /\ calls # <<>> =>
        LET plan == SetupPlan(args.type, ResultOf(1) # "0")
            n == Len(calls)
        IN /\ n <= Len(plan)
           /\ \A k \in 1..n : calls[k].op = plan[k]
           /\ \A k \in 2..(n - 1) : ResultOf(k) = "0"
           /\ ResultOf(1) # "FileNotFoundError" \/ n = 1
           /\ ResultOf(n) # "0" /\ (n > 1 \/ ResultOf(n) = "FileNotFoundError") =>
                 pc = "exited" /\ exitCode = 1
           /\ Completed =>
                 /\ n = Len(plan)
                 /\ \A k \in 2..n : ResultOf(k) = "0"
                 /\ pc = "exited" /\ exitCode = 0
           /\ pc = "exited" /\ exitCode = 0 => Completed

\* the presence check failed, update, install and start succeeded, and the
\* service enable returned non-zero: exit code 1, no provisioning
C17_Witness ==
    /\ program = "setup_database" /\ pc = "exited" /\ exitCode = 1
    /\ Len(calls) = 5
    /\ ResultOf(1) = "1" /\ ResultOf(4) = "0" /\ ResultOf(5) = "1"
    /\ ~Completed

====
